---- MODULE Spec2Model ----
(***************************************************************************)
(* Model of python_production_doctor.py: the per-unit diagnostic pipeline  *)
(* (ProductionDoctor), its detectors, and the pool orchestrator            *)
(* (scan_project_parallel / analyze_file).                                 *)
(*                                                                         *)
(* A source unit is given by its source-level statements; Parse* model     *)
(* what ast.parse makes of them, and the detectors work on that tree as    *)
(* the code does.                                                          *)
(***************************************************************************)
EXTENDS Integers, Sequences, FiniteSets, TLC

VARIABLES
    unit,       \* the source file on disk (path, readability, text)
    config,     \* ConfigManager.config, shared read-only by the doctors
    fs,         \* test files that exist: set of <<location, file name>>
    doctor,     \* the ProductionDoctor instance (fields of self)
    returned,   \* outcomes of the run_diagnostics calls made so far
    out,        \* return value of the last direct detector call
    files,      \* scan_project_parallel: python_files
    pool,       \* the ThreadPoolExecutor and the collecting loop of one scan
    scans,      \* the result lists of the scans that returned
    calls,      \* detectors called on the doctor since its tree was parsed
    defaults,   \* the module-level DEFAULT_CONFIG dict as it is now
    cfgfile     \* the config file given to the ConfigManager in use

vars == <<unit, config, fs, doctor, returned, out, files, pool, scans, calls,
          defaults, cfgfile>>

----------------------------------------------------------------------------
(* Bounds *)

MaxRuns == 3          \* run_diagnostics calls followed per behaviour
MaxTestFiles == 2     \* test files created while the unit is being scanned
MaxFiles == 3         \* units handed to scan_project_parallel
MaxWorkers == 2       \* max_workers of the wide pool
MaxComments == 2      \* comment tokens of a unit
MaxWords == 2         \* words of a comment
MaxBody == 2          \* statements of a function body after its docstring

----------------------------------------------------------------------------
(* Sequence helpers *)

Range(s) == {s[i] : i \in 1..Len(s)}

RECURSIVE SumSeq(_)
SumSeq(s) == IF s = <<>> THEN 0 ELSE Head(s) + SumSeq(Tail(s))

RECURSIVE Flatten(_)
Flatten(ss) == IF ss = <<>> THEN <<>> ELSE Head(ss) \o Flatten(Tail(ss))

Max(a, b) == IF a >= b THEN a ELSE b

SeqsUpTo(S, n) == UNION {[1..k -> S] : k \in 0..n}

----------------------------------------------------------------------------
(* Configuration *)

Categories ==
    {"syntax_errors", "todos", "stubs", "simple_returns", "incomplete_methods",
     "missing_docstrings", "suspicious_short_functions",
     "unimplemented_abstracts", "type_hint_gaps", "test_gaps"}

DEFAULT_CONFIG ==
    [min_function_lines   |-> 5,
     min_docstring_length |-> 15,
     ignore_functions     |-> {"__init__", "__str__", "__repr__"},
     \* FALSE when a user config replaced the list by a JSON number
     \* (_merge_config stores any value it is given)
     ignore_functions_is_list |-> TRUE,
     severity_levels      |->
        [c \in Categories |->
            CASE c \in {"syntax_errors", "unimplemented_abstracts"} -> "critical"
              [] c \in {"stubs", "simple_returns", "incomplete_methods",
                        "test_gaps"} -> "serious"
              [] OTHER -> "minor"]]

\* no config file was given to ConfigManager()
NoFile == [kind |-> "none", doc |-> <<>>]

\* self.config.get('severity_levels', {}).get(category, default)
SeverityOf(cfg, category) == cfg.severity_levels[category]

----------------------------------------------------------------------------
(* Expressions: source forms and the nodes ast.parse builds from them *)

MkExpr(kind, ctype, num, rawlen, striplen, nl, fkind, id, n) ==
    [kind |-> kind, ctype |-> ctype, num |-> num, rawlen |-> rawlen,
     striplen |-> striplen, nl |-> nl, fkind |-> fkind, id |-> id, n |-> n]

Absent == MkExpr("Absent", "", 0, 0, 0, 0, "", "", 0)
Const(ctype, num) == MkExpr("Constant", ctype, num, 0, 0, 0, "", "", 0)
StrConst(rawlen, striplen, nl) ==
    MkExpr("Constant", "str", 0, rawlen, striplen, nl, "", "", 0)
NameExpr(id) == MkExpr("Name", "", 0, 0, 0, 0, "", id, 0)
CallExpr(fkind, id) == MkExpr("Call", "", 0, 0, 0, 0, fkind, id, 0)
Coll(kind, n) == MkExpr(kind, "", 0, 0, 0, 0, "", "", n)
UnaryMinus(num) == MkExpr("UnaryOp", "int", num, 0, 0, 0, "", "", 0)

\* String literals used as docstrings: short, exactly the minimum length,
\* long, and one spanning three lines.
\* string literals; the last one is written on one line with two escaped
\* line breaks, the one before it is written over three lines
EscapedSrc == {"'a\\nb\\nc'"}

StrSrc == {"''", "'doc'", "'fourteen chars'", "'fourteen chars '",
           "'fifteen chars!!'", "'a\nlong\ndocstring'"} \cup EscapedSrc

ExprSrc ==
    {"", "None", "0", "False", "True", "-1", "1", "0.0", "...", "b''",
     "[]", "{}", "()", "[1]", "{1}", "set()", "x", "f()",
     "NotImplementedError", "NotImplementedError()",
     "errors.NotImplementedError()", "ValueError()"} \cup StrSrc

ParseExpr(src) ==
    CASE src = ""      -> Absent
      [] src = "None"  -> Const("NoneType", 0)
      [] src = "0"     -> Const("int", 0)
      [] src = "1"     -> Const("int", 1)
      [] src = "False" -> Const("bool", 0)
      [] src = "True"  -> Const("bool", 1)
      [] src = "0.0"   -> Const("float", 0)
      [] src = "..."   -> Const("ellipsis", 0)
      [] src = "b''"   -> Const("bytes", 0)
      \* a negative literal is the unary minus applied to a constant
      [] src = "-1"    -> UnaryMinus(1)
      [] src = "''"    -> StrConst(0, 0, 0)
      [] src = "'doc'" -> StrConst(3, 3, 0)
      [] src = "'fourteen chars'" -> StrConst(14, 14, 0)
      \* fifteen characters, fourteen once stripped
      [] src = "'fourteen chars '" -> StrConst(15, 14, 0)
      [] src = "'fifteen chars!!'" -> StrConst(15, 15, 0)
      [] src = "'a\nlong\ndocstring'" -> StrConst(16, 16, 2)
      [] src \in EscapedSrc -> StrConst(5, 5, 2)
      [] src = "[]"    -> Coll("List", 0)
      [] src = "[1]"   -> Coll("List", 1)
      [] src = "{}"    -> Coll("Dict", 0)
      [] src = "()"    -> Coll("Tuple", 0)
      [] src = "{1}"   -> Coll("Set", 1)
      [] src = "set()" -> CallExpr("Name", "set")
      [] src = "x"     -> NameExpr("x")
      [] src = "f()"   -> CallExpr("Name", "f")
      [] src = "NotImplementedError"   -> NameExpr("NotImplementedError")
      [] src = "NotImplementedError()" -> CallExpr("Name", "NotImplementedError")
      [] src = "errors.NotImplementedError()" ->
            CallExpr("Attribute", "NotImplementedError")
      [] src = "ValueError()" -> CallExpr("Name", "ValueError")

\* Python value comparisons on ast.Constant.value
IsNone(e)      == e.kind = "Constant" /\ e.ctype = "NoneType"
IsEllipsis(e)  == e.kind = "Constant" /\ e.ctype = "ellipsis"
IsStr(e)       == e.kind = "Constant" /\ e.ctype = "str"
\* val == 0 : bool is a subclass of int, so False == 0; 0.0 == 0
EqZero(e)      == e.kind = "Constant"
                  /\ e.ctype \in {"int", "bool", "float"} /\ e.num = 0
EqMinusOne(e)  == e.kind = "Constant"
                  /\ e.ctype \in {"int", "float"} /\ e.num = -1
EqEmptyStr(e)  == IsStr(e) /\ e.rawlen = 0
IsFalse(e)     == e.kind = "Constant" /\ e.ctype = "bool" /\ e.num = 0
IsTrue(e)      == e.kind = "Constant" /\ e.ctype = "bool" /\ e.num = 1

----------------------------------------------------------------------------
(* Statements *)

\* source statement: [s |-> keyword, e |-> expression source]
Src(s, e) == [s |-> s, e |-> e]

\* ast statement node; lineno is filled in by the layout
ParseStmt(st, lineno) ==
    [kind   |-> CASE st.s = "pass"   -> "Pass"
                  [] st.s = "expr"   -> "Expr"
                  [] st.s = "return" -> "Return"
                  [] st.s = "raise"  -> "Raise"
                  [] st.s = "assign" -> "Assign",
     value  |-> ParseExpr(st.e),
     lineno |-> lineno]

\* lines a statement takes in the file
StmtLines(st) == IF st.e \in EscapedSrc THEN 1 ELSE 1 + ParseExpr(st.e).nl

----------------------------------------------------------------------------
(* Definitions (def / class) of a unit, in declaration order.              *)
(* parent = 0 for a module-level definition, else the index of the         *)
(* enclosing definition; body holds the simple statements, which precede   *)
(* the nested definitions.                                                 *)

Arg(name, ann) == [arg |-> name, ann |-> ann]

NoParams == [args |-> <<>>, vararg |-> "none", kwarg |-> "none",
             kwonly |-> <<>>, returns |-> FALSE]

Def(name, parent, decorators, body, params) ==
    [kind |-> "def", name |-> name, parent |-> parent,
     decorators |-> decorators, body |-> body, params |-> params,
     bases |-> <<>>, metaclass |-> ""]

Class(name, parent, bases, metaclass, body) ==
    [kind |-> "class", name |-> name, parent |-> parent,
     decorators |-> <<>>, body |-> body, params |-> NoParams,
     bases |-> bases, metaclass |-> metaclass]

\* a dotted name parses to ast.Attribute (attr = last part), a plain one to
\* ast.Name, a call to ast.Call
DottedSrc == {"abc.abstractmethod", "abc.ABC", "abc.ABCMeta", "x.setter",
              "functools.wraps"}
CallSrc == {"wraps()"}

ParseRef(src) ==
    CASE src = "abc.abstractmethod" -> [kind |-> "Attribute", id |-> "abstractmethod"]
      [] src = "abc.ABC"            -> [kind |-> "Attribute", id |-> "ABC"]
      [] src = "abc.ABCMeta"        -> [kind |-> "Attribute", id |-> "ABCMeta"]
      [] src = "x.setter"           -> [kind |-> "Attribute", id |-> "setter"]
      [] src = "functools.wraps"    -> [kind |-> "Attribute", id |-> "wraps"]
      [] src \in CallSrc            -> [kind |-> "Call", id |-> ""]
      [] OTHER                      -> [kind |-> "Name", id |-> src]

RECURSIVE SortedSeq(_)
SortedSeq(S) ==
    IF S = {} THEN <<>>
    ELSE LET m == CHOOSE x \in S : \A y \in S : x <= y
         IN <<m>> \o SortedSeq(S \ {m})

\* indices of the definitions directly inside p, in declaration order
Children(defs, p) == SortedSeq({i \in 1..Len(defs) : defs[i].parent = p})

BodyLines(d) == SumSeq([j \in 1..Len(d.body) |-> StmtLines(d.body[j])])

RECURSIVE Height(_, _)
Height(defs, i) ==
    LET ch == Children(defs, i)
    IN Len(defs[i].decorators) + 1 + BodyLines(defs[i])
       + SumSeq([k \in 1..Len(ch) |-> Height(defs, ch[k])])

\* first line of definition i (its first decorator, or the def line);
\* base is the first line after the leading comment block
RECURSIVE FirstLine(_, _, _)
FirstLine(defs, i, base) ==
    LET p == defs[i].parent
        before == SortedSeq({j \in 1..Len(defs) : defs[j].parent = p /\ j < i})
        inner == IF p = 0 THEN base
                 ELSE FirstLine(defs, p, base) + Len(defs[p].decorators)
                      + 1 + BodyLines(defs[p])
    IN inner + SumSeq([k \in 1..Len(before) |-> Height(defs, before[k])])

Lineno(defs, i, base) == FirstLine(defs, i, base) + Len(defs[i].decorators)
EndLineno(defs, i, base) == FirstLine(defs, i, base) + Height(defs, i) - 1

\* node.body of definition i: its simple statements, then one statement per
\* nested definition
ParseBody(defs, i, base) ==
    LET d == defs[i]
        ch == Children(defs, i)
        l0 == Lineno(defs, i, base)
    IN [j \in 1..Len(d.body) |->
            ParseStmt(d.body[j],
                      l0 + 1 + SumSeq([k \in 1..(j-1) |-> StmtLines(d.body[k])]))]
       \o
       [k \in 1..Len(ch) |->
            [kind   |-> IF defs[ch[k]].kind = "def" THEN "FunctionDef" ELSE "ClassDef",
             value  |-> Absent,
             lineno |-> Lineno(defs, ch[k], base)]]

\* ast.parse: the FunctionDef / ClassDef nodes of the module
ParseDefs(defs, base) ==
    [i \in 1..Len(defs) |->
        [kind           |-> IF defs[i].kind = "def" THEN "FunctionDef" ELSE "ClassDef",
         name           |-> defs[i].name,
         parent         |-> defs[i].parent,
         lineno         |-> Lineno(defs, i, base),
         end_lineno     |-> EndLineno(defs, i, base),
         decorator_list |-> [k \in 1..Len(defs[i].decorators) |->
                                ParseRef(defs[i].decorators[k])],
         body           |-> ParseBody(defs, i, base),
         args           |-> defs[i].params,
         bases          |-> [k \in 1..Len(defs[i].bases) |-> ParseRef(defs[i].bases[k])],
         keywords       |-> IF defs[i].metaclass = "" THEN <<>>
                            ELSE <<[arg |-> "metaclass",
                                    value |-> ParseRef(defs[i].metaclass)]>>]]

\* ast.walk: breadth-first from the module node (a deque: popleft, then
\* extend with the node's children)
RECURSIVE WalkFrom(_, _)
WalkFrom(tree, todo) ==
    IF todo = <<>> THEN <<>>
    ELSE <<Head(todo)>> \o WalkFrom(tree, Tail(todo) \o Children(tree, Head(todo)))

Walk(tree) == WalkFrom(tree, Children(tree, 0))

IsFunc(node) == node.kind = "FunctionDef"
IsClass(node) == node.kind = "ClassDef"

----------------------------------------------------------------------------
(* Issues *)

Issue(category, severity, line, name, cls, label, count, list) ==
    [category |-> category, severity |-> severity, line_number |-> line,
     name |-> name, cls |-> cls, label |-> label, count |-> count,
     list |-> list]

\* the nodes in the order ast.walk yields them
Visited(tree) ==
    LET w == Walk(tree) IN [k \in 1..Len(w) |-> tree[w[k]]]

\* body with a leading string-constant expression statement removed
StripDocstring(body) ==
    IF body # <<>> /\ body[1].kind = "Expr" /\ body[1].value.kind = "Constant"
       /\ IsStr(body[1].value)
    THEN Tail(body) ELSE body

HasDocstring(body) == StripDocstring(body) # body

----------------------------------------------------------------------------
(* 4.3 find_stubs *)

\* a raise test that knows the called form only
RaisesNotImplemented_CallOnly(stmt) ==
    /\ stmt.kind = "Raise"
    /\ stmt.value.kind = "Call"
    /\ stmt.value.fkind = "Name"
    /\ stmt.value.id = "NotImplementedError"

RaisesNotImplemented(stmt) ==
    /\ stmt.kind = "Raise"
    /\ stmt.value.kind # "Absent"
    /\ \/ stmt.value.kind = "Call" /\ stmt.value.fkind = "Name"
          /\ stmt.value.id = "NotImplementedError"
       \/ stmt.value.kind = "Name" /\ stmt.value.id = "NotImplementedError"

\* "" stands for stub_type = None
StubType(body) ==
    IF Len(body) # 1 THEN ""
    ELSE LET stmt == body[1]
         IN CASE stmt.kind = "Pass" -> "pass statement"
              [] stmt.kind = "Expr" /\ stmt.value.kind = "Constant" ->
                    IF IsEllipsis(stmt.value) THEN "ellipsis (...)" ELSE ""
              [] stmt.kind = "Raise" ->
                    IF RaisesNotImplemented(stmt) THEN "NotImplementedError" ELSE ""
              [] OTHER -> ""

StubsOfNode(cfg, node) ==
    IF ~IsFunc(node) \/ node.name \in cfg.ignore_functions THEN <<>>
    ELSE LET body == StripDocstring(node.body)
         IN IF body = <<>> \/ StubType(body) = "" THEN <<>>
            ELSE <<Issue("stubs", SeverityOf(cfg, "stubs"), node.lineno,
                         node.name, "", StubType(body), 0, <<>>)>>

find_stubs(cfg, tree) ==
    LET w == Visited(tree)
    IN Flatten([k \in 1..Len(w) |-> StubsOfNode(cfg, w[k])])

----------------------------------------------------------------------------
(* 4.4 find_simple_returns *)

\* "" stands for return_type = None
ReturnType(v) ==
    CASE v.kind = "Absent" -> "None (implicit)"
      [] v.kind = "Constant" ->
            CASE IsNone(v)     -> "None"
              [] EqZero(v)     -> "Zero"
              [] EqEmptyStr(v) -> "Empty String"
              [] IsFalse(v)    -> "False"
              [] IsTrue(v)     -> "True"
              [] EqMinusOne(v) -> "Negative One"
              [] OTHER         -> ""
      [] v.kind = "List"  /\ v.n = 0 -> "Empty List"
      [] v.kind = "Dict"  /\ v.n = 0 -> "Empty Dict"
      [] v.kind = "Tuple" /\ v.n = 0 -> "Empty Tuple"
      [] v.kind = "Set"   /\ v.n = 0 -> "Empty Set"
      [] OTHER -> ""

SimpleReturnsOfNode(cfg, node) ==
    IF ~IsFunc(node) \/ node.name \in cfg.ignore_functions THEN <<>>
    ELSE LET body == StripDocstring(node.body)
         IN IF Len(body) = 1 /\ body[1].kind = "Return"
               /\ ReturnType(body[1].value) # ""
            THEN <<Issue("simple_returns", SeverityOf(cfg, "simple_returns"),
                         body[1].lineno, node.name, "",
                         ReturnType(body[1].value), 0, <<>>)>>
            ELSE <<>>

find_simple_returns(cfg, tree) ==
    LET w == Visited(tree)
    IN Flatten([k \in 1..Len(w) |-> SimpleReturnsOfNode(cfg, w[k])])

----------------------------------------------------------------------------
(* 4.2 find_todos *)

\* Words a comment is made of.  A word is a maximal run of word characters,
\* so \bTODO\b matches a comment exactly when one of its words is TODO in
\* any letter case.
Words == {"TODO", "todo", "FIXME", "HACK", "XXX", "NOTE", "TEMP", "WIP",
          "TODOS", "later"}

\* re.IGNORECASE
Upper(w) == IF w = "todo" THEN "TODO" ELSE IF w = "later" THEN "LATER" ELSE w

TODO_PATTERNS ==
    << [marker |-> "TODO",  label |-> "Action Required"],
       [marker |-> "FIXME", label |-> "Critical Fix Needed"],
       [marker |-> "HACK",  label |-> "Technical Debt"],
       [marker |-> "XXX",   label |-> "Urgent Review"],
       [marker |-> "NOTE",  label |-> "Important Note"],
       [marker |-> "TEMP",  label |-> "Temporary Code"],
       [marker |-> "WIP",   label |-> "Work In Progress"] >>

\* re.search(pattern, comment_text, re.IGNORECASE)
PatternMatches(k, comment) ==
    \E i \in 1..Len(comment) : Upper(comment[i]) = TODO_PATTERNS[k].marker

\* the loop over TODO_PATTERNS from pattern k on: the first pattern that
\* matches appends an issue and breaks out of the loop
RECURSIVE ScanPatterns(_, _, _, _)
ScanPatterns(k, cfg, comment, line) ==
    IF k > Len(TODO_PATTERNS) THEN <<>>
    ELSE IF PatternMatches(k, comment)
         THEN <<Issue("todos", SeverityOf(cfg, "todos"), line, "", "",
                      TODO_PATTERNS[k].label, 0, comment)>>
         ELSE ScanPatterns(k + 1, cfg, comment, line)

\* the loop over TODO_PATTERNS without its break: one issue for every
\* pattern that matches
TodosOfComment_NoBreak(cfg, comment, line) ==
    Flatten([k \in 1..Len(TODO_PATTERNS) |->
        IF PatternMatches(k, comment)
        THEN <<Issue("todos", SeverityOf(cfg, "todos"), line, "", "",
                     TODO_PATTERNS[k].label, 0, comment)>>
        ELSE <<>>])

TodosOfComment(cfg, comment, line) == ScanPatterns(1, cfg, comment, line)

\* comment k of the unit stands on line k
find_todos(cfg, comments) ==
    Flatten([k \in 1..Len(comments) |-> TodosOfComment(cfg, comments[k], k)])

----------------------------------------------------------------------------
(* 4.5 find_incomplete_methods *)

\* stmt.value.value in (None, 0, '', False, [], {}): a Constant never equals
\* a list or a dict
InTrivialValues(v) == IsNone(v) \/ EqZero(v) \/ EqEmptyStr(v) \/ IsFalse(v)

IsIncompleteStmt(stmt) ==
    CASE stmt.kind = "Pass"   -> TRUE
      [] stmt.kind = "Return" ->
            \/ stmt.value.kind = "Absent"
            \/ stmt.value.kind = "Constant" /\ InTrivialValues(stmt.value)
      [] stmt.kind = "Expr"   ->
            stmt.value.kind = "Constant" /\ IsEllipsis(stmt.value)
      [] OTHER -> FALSE

\* the FunctionDef items of a class body, in body order
Methods(tree, c) ==
    SelectSeq(Children(tree, c), LAMBDA i : IsFunc(tree[i]))

IncompleteOfMethod(cfg, cls, item) ==
    IF item.name \in cfg.ignore_functions THEN <<>>
    ELSE LET body == StripDocstring(item.body)
         IN IF HasDocstring(item.body) /\ Len(body) = 1
               /\ IsIncompleteStmt(body[1])
            THEN <<Issue("incomplete_methods",
                         SeverityOf(cfg, "incomplete_methods"), item.lineno,
                         item.name, cls.name, "", 0, <<>>)>>
            ELSE <<>>

find_incomplete_methods(cfg, tree) ==
    LET w == Walk(tree)
        OfClass(c) ==
            IF ~IsClass(tree[c]) THEN <<>>
            ELSE LET ms == Methods(tree, c)
                 IN Flatten([k \in 1..Len(ms) |->
                        IncompleteOfMethod(cfg, tree[c], tree[ms[k]])])
    IN Flatten([k \in 1..Len(w) |-> OfClass(w[k])])

----------------------------------------------------------------------------
(* 4.6 find_missing_docstrings *)

\* ast.get_docstring(node) is truthy and len(docstring.strip()) >= minimum
\* the length test made on the docstring as written, not stripped
DocumentedEnough_Untrimmed(cfg, node) ==
    /\ HasDocstring(node.body)
    /\ node.body[1].value.rawlen > 0
    /\ node.body[1].value.rawlen >= cfg.min_docstring_length

DocumentedEnough(cfg, node) ==
    /\ HasDocstring(node.body)
    /\ node.body[1].value.striplen > 0
    /\ node.body[1].value.striplen >= cfg.min_docstring_length

\* func_name.startswith('_') and not func_name.startswith('__')
PrivateNames == {"_helper"}
DunderNames == {"__init__", "__str__", "__repr__", "__call__"}
IsPrivateName(name) == name \in PrivateNames
StartsWithUnderscore(name) == name \in PrivateNames \cup DunderNames
IsDunderName(name) == name \in DunderNames

MissingDocOfNode(cfg, node) ==
    IF IsClass(node)
    THEN IF DocumentedEnough(cfg, node) THEN <<>>
         ELSE <<Issue("missing_docstrings", SeverityOf(cfg, "missing_docstrings"),
                      node.lineno, node.name, "", "class", 0, <<>>)>>
    ELSE IF node.name \in cfg.ignore_functions \/ IsPrivateName(node.name)
            \/ DocumentedEnough(cfg, node)
         THEN <<>>
         ELSE <<Issue("missing_docstrings", SeverityOf(cfg, "missing_docstrings"),
                      node.lineno, node.name, "", "function", 0, <<>>)>>

\* the metrics dict after the detector's increments
MissingDocMetrics(cfg, tree, m) ==
    LET counted(n) == IsFunc(n) /\ n.name \notin cfg.ignore_functions
        documented(n) == counted(n) /\ ~IsPrivateName(n.name)
                         /\ DocumentedEnough(cfg, n)
    IN [m EXCEPT !.total_classes = @ + Len(SelectSeq(tree, IsClass)),
                 !.total_functions = @ + Len(SelectSeq(tree, counted)),
                 !.documented_functions = @ + Len(SelectSeq(tree, documented))]

find_missing_docstrings(cfg, tree) ==
    LET w == Visited(tree)
    IN Flatten([k \in 1..Len(w) |-> MissingDocOfNode(cfg, w[k])])

----------------------------------------------------------------------------
(* 4.7 find_suspicious_short_functions *)

ExemptDecorators == {"property", "setter", "getter", "staticmethod", "classmethod"}

\* names collected from decorator_list: ast.Name ids and ast.Attribute attrs
DecoratorNames(node) ==
    {node.decorator_list[k].id : k \in
        {j \in 1..Len(node.decorator_list) :
            node.decorator_list[j].kind \in {"Name", "Attribute"}}}

\* the line span alone, the docstring not taken off
FuncLines_WithDocstring(node) == node.end_lineno - node.lineno + 1

FuncLines(node) ==
    (node.end_lineno - node.lineno + 1)
    - (IF HasDocstring(node.body) THEN node.body[1].value.nl + 1 ELSE 0)

ShortOfNode(cfg, node) ==
    IF ~IsFunc(node) \/ node.name \in cfg.ignore_functions
       \/ IsDunderName(node.name)
    THEN <<>>
    ELSE IF FuncLines(node) < cfg.min_function_lines /\ Len(node.body) > 0
            /\ DecoratorNames(node) \cap ExemptDecorators = {}
         THEN <<Issue("suspicious_short_functions",
                      SeverityOf(cfg, "suspicious_short_functions"),
                      node.lineno, node.name, "", "",
                      Max(1, FuncLines(node)), <<>>)>>
         ELSE <<>>

find_suspicious_short_functions(cfg, tree) ==
    LET w == Visited(tree)
    IN Flatten([k \in 1..Len(w) |-> ShortOfNode(cfg, w[k])])

----------------------------------------------------------------------------
(* 4.8 find_unimplemented_abstracts *)

IsAbstractClass(node) ==
    \/ \E k \in 1..Len(node.bases) :
          /\ node.bases[k].kind \in {"Name", "Attribute"}
          /\ node.bases[k].id \in {"ABC", "ABCMeta"}
    \/ \E k \in 1..Len(node.keywords) :
          /\ node.keywords[k].arg = "metaclass"
          /\ node.keywords[k].value.kind = "Name"
          /\ node.keywords[k].value.id = "ABCMeta"

IsAbstractMethod(item) ==
    \E k \in 1..Len(item.decorator_list) :
        /\ item.decorator_list[k].kind \in {"Name", "Attribute"}
        /\ item.decorator_list[k].id \in {"abstractmethod", "abstractproperty"}

\* the "proper abstract method pattern": raise NotImplementedError(...)
IsProperAbstractBody(body) ==
    /\ Len(body) = 1
    /\ body[1].kind = "Raise"
    /\ body[1].value.kind = "Call"
    /\ body[1].value.fkind = "Name"
    /\ body[1].value.id = "NotImplementedError"

\* a test of "real implementation" that looks at the returned value, as
\* find_incomplete_methods does
IsRealStmt_ByValue(stmt) ==
    stmt.kind # "Expr" /\ ~IsIncompleteStmt(stmt)

\* stmt.value is not None compares the node reference: only a bare
\* return has no value node
IsRealStmt(stmt) ==
    /\ stmt.kind \notin {"Pass", "Expr"}
    /\ (stmt.kind = "Return" => stmt.value.kind # "Absent")

HasRealImplementation(body) == \E k \in 1..Len(body) : IsRealStmt(body[k])

AbstractOfMethod(cfg, cls, item) ==
    IF ~IsAbstractMethod(item) THEN <<>>
    ELSE LET body == StripDocstring(item.body)
         IN IF IsProperAbstractBody(body) THEN <<>>
            ELSE IF ~HasRealImplementation(body) /\ body # <<>>
                 THEN <<Issue("unimplemented_abstracts",
                              SeverityOf(cfg, "unimplemented_abstracts"),
                              item.lineno, item.name, cls.name, "", 0, <<>>)>>
                 ELSE <<>>

find_unimplemented_abstracts(cfg, tree) ==
    LET w == Walk(tree)
        OfClass(c) ==
            IF ~IsClass(tree[c]) \/ ~IsAbstractClass(tree[c]) THEN <<>>
            ELSE LET ms == Methods(tree, c)
                 IN Flatten([k \in 1..Len(ms) |->
                        AbstractOfMethod(cfg, tree[c], tree[ms[k]])])
    IN Flatten([k \in 1..Len(w) |-> OfClass(w[k])])

----------------------------------------------------------------------------
(* 4.9 find_type_hint_gaps *)

Receivers == {"self", "cls"}

MissingHints(node) ==
    LET a == node.args
        unann(args) == SelectSeq(args, LAMBDA x : ~x.ann)
        pos == SelectSeq(a.args, LAMBDA x : x.arg \notin Receivers /\ ~x.ann)
    IN (IF a.returns THEN <<>> ELSE <<"return type">>)
       \o [k \in 1..Len(pos) |-> pos[k].arg]
       \o (IF a.vararg = "plain" THEN <<"*args">> ELSE <<>>)
       \o (IF a.kwarg = "plain" THEN <<"**kwargs">> ELSE <<>>)
       \o [k \in 1..Len(unann(a.kwonly)) |-> unann(a.kwonly)[k].arg]

HasAnyHints(node) ==
    \/ node.args.returns
    \/ \E k \in 1..Len(node.args.args) :
          node.args.args[k].arg \notin Receivers /\ node.args.args[k].ann

\* missing_hints[:5]
FirstN(s, n) == IF Len(s) <= n THEN s ELSE SubSeq(s, 1, n)

MaxShownHints == 5

TypeHintOfNode(cfg, node) ==
    IF ~IsFunc(node) \/ node.name \in cfg.ignore_functions THEN <<>>
    ELSE IF HasAnyHints(node) /\ MissingHints(node) # <<>>
         THEN <<Issue("type_hint_gaps", SeverityOf(cfg, "type_hint_gaps"),
                      node.lineno, node.name, "", "", 0,
                      FirstN(MissingHints(node), MaxShownHints))>>
         ELSE <<>>

TypeHintMetrics(cfg, tree, m) ==
    LET hinted(n) == IsFunc(n) /\ n.name \notin cfg.ignore_functions
                     /\ MissingHints(n) = <<>>
    IN [m EXCEPT !.type_hinted_functions = @ + Len(SelectSeq(tree, hinted))]

find_type_hint_gaps(cfg, tree) ==
    LET w == Visited(tree)
    IN Flatten([k \in 1..Len(w) |-> TypeHintOfNode(cfg, w[k])])

----------------------------------------------------------------------------
(* 4.10 find_test_gaps *)

\* Directories of the project; Root is project_root.
Root == "root"
Dirs == {"root", "root/pkg", "root/tests", "root/test", "root/docs"}

\* File names the model knows, with what the string tests of the code make
\* of them.
UnitNames == {"foo.py", "test_foo.py", "foo_test.py", "__init__.py",
              "setup.py", "conftest.py"}
TestFileNames == {"test_foo.py", "foo_test.py", "test_bar.py"}

\* file_name.startswith('test_') or file_name.endswith('_test.py')
LooksLikeTest(name) == name \in {"test_foo.py", "foo_test.py", "test_bar.py"}
\* file_name in ('__init__.py', 'setup.py', 'conftest.py')
IsSetupFile(name) == name \in {"__init__.py", "setup.py", "conftest.py"}

\* file_name.replace('.py', '')
ModuleName(name) ==
    CASE name = "foo.py"      -> "foo"
      [] name = "test_foo.py" -> "test_foo"
      [] name = "foo_test.py" -> "foo_test"
      [] name = "__init__.py" -> "__init__"
      [] name = "setup.py"    -> "setup"
      [] name = "conftest.py" -> "conftest"

\* candidate names without the <module>_test.py form
PossibleTestNames_PrefixOnly(name) ==
    IF ModuleName(name) = "foo"
    THEN <<"test_foo.py", "test_foo.py", "test_foo.py">>
    ELSE <<>>

\* os.path.basename of the four possible_test_names for module_name
PossibleTestNames(name) ==
    IF ModuleName(name) = "foo"
    THEN <<"test_foo.py", "foo_test.py", "test_foo.py", "test_foo.py">>
    ELSE <<>>

\* the loop over search_dirs with its two breaks: whether a candidate was
\* found and how many directories were looked at
RECURSIVE SearchFrom(_, _, _)
SearchFrom(k, files_on_disk, path) ==
    IF k > 4 THEN [found |-> FALSE, probed |-> 4]
    ELSE LET d == <<path.dir, "root", "root/tests", "root/test">>[k]
             isdir == d = "root" \/ d = path.dir
                      \/ \E f \in files_on_disk : f[1] = d
             hit == isdir /\ \E t \in Range(PossibleTestNames(path.name)) :
                                <<d, t>> \in files_on_disk
         IN IF hit THEN [found |-> TRUE, probed |-> k]
            ELSE SearchFrom(k + 1, files_on_disk, path)

\* every FunctionDef that ast.walk reaches whose name has no leading underscore
PublicFuncCount(tree) ==
    LET public(n) == IsFunc(n) /\ ~StartsWithUnderscore(n.name)
    IN Len(SelectSeq(tree, public))

MinPublicFunctions == 2

find_test_gaps(cfg, tree, path, files_on_disk) ==
    IF LooksLikeTest(path.name) \/ IsSetupFile(path.name) THEN <<>>
    ELSE IF ~SearchFrom(1, files_on_disk, path).found
            /\ PublicFuncCount(tree) >= MinPublicFunctions
         THEN <<Issue("test_gaps", SeverityOf(cfg, "test_gaps"), 1,
                      ModuleName(path.name), "", "", PublicFuncCount(tree), <<>>)>>
         ELSE <<>>

----------------------------------------------------------------------------
(* Source units *)

MkUnit(dir, name, readable, parse, errline, comments, defs, extra) ==
    [path |-> [dir |-> dir, name |-> name],
     readable |-> readable,   \* open() and read() succeed
     parse |-> parse,         \* what ast.parse does with the text:
                              \* "ok", "SyntaxError" or "RecursionError"
     errline |-> errline,     \* e.lineno of the SyntaxError, 0 for None
     comments |-> comments,   \* leading comment lines
     defs |-> defs,           \* the def / class statements
     extra |-> extra]         \* further module-level lines after them

TopLevel(u) == Children(u.defs, 0)

\* len(source_code.splitlines())
NumLines(u) ==
    Len(u.comments)
    + SumSeq([k \in 1..Len(TopLevel(u)) |-> Height(u.defs, TopLevel(u)[k])])
    + u.extra

\* ast.parse(self.source_code)
ParseUnit(u) == ParseDefs(u.defs, Len(u.comments) + 1)

----------------------------------------------------------------------------
(* ProductionDoctor *)

ZeroMetrics ==
    [total_lines |-> 0, total_functions |-> 0, total_classes |-> 0,
     documented_functions |-> 0, type_hinted_functions |-> 0]

NoTree == [present |-> FALSE, nodes |-> <<>>]

NoDoctor ==
    [id |-> 0, source_loaded |-> FALSE, issues |-> <<>>,
     metrics |-> ZeroMetrics, tree |-> NoTree]

\* __init__ followed by _load_file
NewDoctor(id, u) ==
    [id |-> id,
     source_loaded |-> u.readable,
     issues |-> <<>>,
     metrics |-> IF u.readable
                 THEN [ZeroMetrics EXCEPT !.total_lines = NumLines(u)]
                 ELSE ZeroMetrics,
     tree |-> NoTree]

\* not self.source_code: None, or the empty string
SourceFalsy(d) == ~d.source_loaded \/ d.metrics.total_lines = 0

\* check_syntax without its "except Exception" branch
check_syntax_SyntaxErrorOnly(cfg, u) ==
    IF u.parse = "SyntaxError"
    THEN <<Issue("syntax_errors", SeverityOf(cfg, "syntax_errors"),
                 u.errline, "", "", "SyntaxError", 0, <<>>)>>
    ELSE <<>>

check_syntax(cfg, u) ==
    CASE u.parse = "SyntaxError" ->
            <<Issue("syntax_errors", SeverityOf(cfg, "syntax_errors"),
                    u.errline, "", "", "SyntaxError", 0, <<>>)>>
      [] u.parse = "ok" -> <<>>
      [] OTHER ->
            <<Issue("syntax_errors", "critical", 0, "", "", u.parse, 0, <<>>)>>

\* func_name in ignore_functions raises TypeError when ignore_functions is
\* not a container; find_stubs is the first detector to evaluate it
DetectorsRaise(cfg, tree) ==
    ~cfg.ignore_functions_is_list /\ \E i \in 1..Len(tree) : IsFunc(tree[i])

\* The whole of run_diagnostics: the doctor it leaves behind, whether it
\* raised, and the DiagnosticResult it returned (issues and metrics as they
\* are at the return).
run_diagnostics(d, cfg, u, files_on_disk) ==
    LET syntax_issues == check_syntax(cfg, u)
        tree == ParseUnit(u)
        m1 == MissingDocMetrics(cfg, tree, d.metrics)
        m2 == TypeHintMetrics(cfg, tree, m1)
        todos == find_todos(cfg, u.comments)
        all == todos
               \o find_stubs(cfg, tree)
               \o find_simple_returns(cfg, tree)
               \o find_incomplete_methods(cfg, tree)
               \o find_missing_docstrings(cfg, tree)
               \o find_suspicious_short_functions(cfg, tree)
               \o find_unimplemented_abstracts(cfg, tree)
               \o find_type_hint_gaps(cfg, tree)
               \o find_test_gaps(cfg, tree, u.path, files_on_disk)
        Returns(dd, raised) ==
            [doctor |-> dd, raised |-> raised,
             result |-> [file_path |-> u.path, issues |-> dd.issues,
                         metrics |-> dd.metrics]]
    IN IF SourceFalsy(d)
       THEN Returns([d EXCEPT !.issues = <<>>], FALSE)
       ELSE IF syntax_issues # <<>>
       THEN Returns([d EXCEPT !.issues = syntax_issues], FALSE)
       ELSE IF DetectorsRaise(cfg, tree)
       THEN Returns([d EXCEPT !.issues = todos,
                          !.tree = [present |-> TRUE, nodes |-> tree]], TRUE)
       ELSE Returns([d EXCEPT !.issues = all, !.metrics = m2,
                          !.tree = [present |-> TRUE, nodes |-> tree]], FALSE)

----------------------------------------------------------------------------
(* Units scanned in the life of one doctor *)

Pass == Src("pass", "")
Ret(e) == Src("return", e)
Doc(e) == Src("expr", e)

Hinted == [args |-> <<Arg("self", FALSE), Arg("x", TRUE)>>, vararg |-> "none",
           kwarg |-> "none", kwonly |-> <<>>, returns |-> TRUE]
Partly == [args |-> <<Arg("x", TRUE), Arg("y", FALSE)>>, vararg |-> "plain",
           kwarg |-> "none", kwonly |-> <<>>, returns |-> FALSE]

TwoStubs ==
    << Def("foo", 0, <<>>, <<Pass>>, NoParams),
       Def("bar", 0, <<>>, <<Ret("0")>>, Partly) >>

DefsPalette ==
    { <<>>,
      TwoStubs,
      \* one public function containing a nested public one
      << Def("foo", 0, <<>>, <<Src("assign", "x")>>, NoParams),
         Def("bar", 1, <<>>, <<Doc("'fifteen chars!!'"), Ret("x")>>, Hinted) >>,
      \* an abstract class with a documented abstract method and a private one
      << Class("Base", 0, <<"ABC">>, "", <<Doc("'a\nlong\ndocstring'")>>),
         Def("foo", 1, <<"abstractmethod">>,
             <<Doc("'fifteen chars!!'"), Pass>>, Hinted),
         Def("_helper", 1, <<>>, <<Ret("")>>, NoParams) >>,
      \* a class with an ignored constructor and two methods
      << Class("Base", 0, <<>>, "", <<Pass>>),
         Def("__init__", 1, <<>>, <<Pass>>, NoParams),
         Def("foo", 1, <<"property">>, <<Ret("False")>>, NoParams),
         Def("bar", 1, <<>>, <<Doc("'doc'"), Src("raise", "NotImplementedError()")>>,
             Partly) >> }

CommentsPalette == { <<>>, << <<"later", "TODO">>, <<"FIXME">> >> }

ValidUnits ==
    {MkUnit("root/pkg", "foo.py", TRUE, "ok", 0, c, d, 0) :
        c \in CommentsPalette, d \in DefsPalette \ {<<>>}}
    \cup
    {MkUnit("root", "foo.py", TRUE, "ok", 0, <<>>, TwoStubs, 0)}
    \cup
    {MkUnit("root/pkg", n, TRUE, "ok", 0, <<>>, TwoStubs, 1) :
        n \in {"__init__.py", "test_foo.py"}}
    \cup
    \* no definition at all: only comments and plain statements, or nothing
    {MkUnit("root/pkg", "foo.py", TRUE, "ok", 0, c, <<>>, Len(c)) :
        c \in CommentsPalette}

\* the text holds the same definitions, and one line that does not parse
BrokenUnits ==
    {MkUnit("root/pkg", "foo.py", TRUE, x[1], x[2],
            << <<"later", "TODO">>, <<"FIXME">> >>, TwoStubs, 1) :
        x \in {<<"SyntaxError", 0>>, <<"SyntaxError", 2>>, <<"RecursionError", 0>>}}

UnreadableUnits == {MkUnit("root/pkg", "foo.py", FALSE, "ok", 0, <<>>, TwoStubs, 0)}

Units == ValidUnits \cup BrokenUnits \cup UnreadableUnits

\* where a test file may appear: a candidate name in each of the four
\* directories the detector searches, a candidate name in a directory it
\* does not search, and another module's test in the root
TestFileSpots ==
    { <<"root/pkg", "test_foo.py">>, <<"root", "foo_test.py">>,
      <<"root/tests", "test_foo.py">>, <<"root/test", "foo_test.py">>,
      <<"root/docs", "test_foo.py">>, <<"root", "test_bar.py">> }

NoPool == [phase |-> "idle", max_workers |-> 0, queue |-> <<>>, running |-> {},
           completed |-> {}, outcome |-> <<>>, results |-> <<>>]

\* what a direct call of a detector returned, and whether the doctor held a
\* parsed tree (for find_todos: a loaded source) when it was made
NoOut == [detector |-> "", ready |-> FALSE, issues |-> <<>>]

----------------------------------------------------------------------------
(* Life of a doctor: construction, scans, and test files appearing on disk *)

Init ==
    /\ unit \in Units
    /\ config = DEFAULT_CONFIG
    /\ fs = {}
    /\ doctor = NoDoctor
    /\ returned = <<>>
    /\ out = NoOut
    /\ files = <<>>
    /\ pool = NoPool
    /\ scans = <<>>
    /\ calls = {}
    /\ defaults = DEFAULT_CONFIG
    /\ cfgfile = NoFile

\* ProductionDoctor(file_path, config, project_root): a fresh instance; the
\* caller takes one when it has none or after the current one has scanned
Construct ==
    /\ Len(returned) < MaxRuns
    /\ doctor.id = 0 \/ \E k \in 1..Len(returned) : returned[k].doctor = doctor.id
    /\ doctor' = NewDoctor(doctor.id + 1, unit)
    /\ UNCHANGED <<unit, config, fs, returned, out, files, pool, scans,
                   calls, defaults, cfgfile>>

\* DiagnosticResult(metrics=self.metrics) hands out the doctor's own dict:
\* the results the doctor returned before show the metrics as they are now
Alias(results, id, metrics) ==
    [k \in 1..Len(results) |->
        IF results[k].doctor = id /\ ~results[k].raised
        THEN [results[k] EXCEPT !.metrics = metrics]
        ELSE results[k]]

\* doctor.run_diagnostics(); the caller keeps every result it was given, and
\* notes the files on disk and the severity map of that moment
RunDiagnostics ==
    /\ doctor.id > 0
    /\ Len(returned) < MaxRuns
    /\ LET r == run_diagnostics(doctor, config, unit, fs)
       IN /\ doctor' = r.doctor
          /\ returned' = Append(Alias(returned, doctor.id, r.doctor.metrics),
                [doctor |-> doctor.id, raised |-> r.raised,
                 issues |-> r.result.issues, metrics |-> r.result.metrics,
                 disk |-> fs, severity_levels |-> config.severity_levels])
    /\ UNCHANGED <<unit, config, fs, out, files, pool, scans, calls,
                   defaults, cfgfile>>

\* somebody adds a test file to the project
AddTestFile ==
    /\ Cardinality(fs) < MaxTestFiles
    /\ \E f \in TestFileSpots \ fs : fs' = fs \cup {f}
    /\ UNCHANGED <<unit, config, doctor, returned, out, files, pool, scans,
                   calls, defaults, cfgfile>>

Next == Construct \/ RunDiagnostics \/ AddTestFile

Spec == Init /\ [][Next]_vars

----------------------------------------------------------------------------
(* Properties of the doctor's life *)

\* the unit has text, and the text does not parse
FailsToParse(u) == u.readable /\ NumLines(u) > 0 /\ u.parse # "ok"

CategoriesOf(issues) == {issues[k].category : k \in 1..Len(issues)}

IssuesOfCategory(issues, c) == SelectSeq(issues, LAMBDA i : i.category = c)

\* C1: a unit whose text fails to parse gets a result from every scan, with
\* exactly one issue, of category syntax_errors, and with no metric other
\* than total_lines above zero.
C1_SyntaxShortCircuit ==
    FailsToParse(unit) =>
        \A k \in 1..Len(returned) :
            /\ ~returned[k].raised
            /\ Len(returned[k].issues) = 1
            /\ returned[k].issues[1].category = "syntax_errors"
            /\ returned[k].metrics =
                  [ZeroMetrics EXCEPT !.total_lines = returned[k].metrics.total_lines]

\* a broken unit whose text holds comment markers and stub functions was
\* scanned twice by one doctor
C1_Witness ==
    /\ FailsToParse(unit)
    /\ unit.comments # <<>> /\ unit.defs # <<>>
    /\ Len(returned) >= 2
    /\ returned[1].doctor = returned[2].doctor
    /\ returned[2].metrics.total_lines > 0

\* C2: two scans of the unit with the same files on disk return the same
\* issues and the same metrics, on a fresh doctor or on the same one.
C2_Determinism ==
    \A i, j \in 1..Len(returned) :
        returned[i].disk = returned[j].disk =>
            /\ returned[i].issues = returned[j].issues
            /\ returned[i].metrics = returned[j].metrics

\* a module foo that is not a test or set-up file, parses, and has at least
\* two public functions at module level
IsPlainFooWithTwoPublic(u) ==
    /\ u.path.name = "foo.py"
    /\ u.readable /\ u.parse = "ok"
    /\ Cardinality({i \in 1..Len(u.defs) :
            /\ u.defs[i].kind = "def" /\ u.defs[i].parent = 0
            /\ u.defs[i].name \in {"foo", "bar"}}) >= 2

FourLocations(u) == <<u.path.dir, "root", "root/tests", "root/test">>

CandidateIn(disk, d) ==
    <<d, "test_foo.py">> \in disk \/ <<d, "foo_test.py">> \in disk

CandidateExists(disk, u) ==
    \E k \in 1..4 : CandidateIn(disk, FourLocations(u)[k])

\* C9: for such a unit every scan made while no candidate test file exists
\* in the four locations yields exactly one test_gaps issue, every scan made
\* once one exists in any of them yields none, and the search looks at no
\* directory after the first one that holds a candidate.
C9_TestGapToggle ==
    IsPlainFooWithTwoPublic(unit) =>
        /\ \A k \in 1..Len(returned) :
              Len(IssuesOfCategory(returned[k].issues, "test_gaps"))
                = IF CandidateExists(returned[k].disk, unit) THEN 0 ELSE 1
        /\ LET s == SearchFrom(1, fs, unit.path)
           IN /\ s.found = CandidateExists(fs, unit)
              /\ s.found =>
                    /\ CandidateIn(fs, FourLocations(unit)[s.probed])
                    /\ \A k \in 1..(s.probed - 1) :
                          ~CandidateIn(fs, FourLocations(unit)[k])

\* one doctor scanned the unit before and after a candidate was added in a
\* directory other than the unit's own, and a second candidate exists in a
\* later location
C9_Witness ==
    /\ IsPlainFooWithTwoPublic(unit)
    /\ Len(returned) >= 2
    /\ returned[1].doctor = returned[2].doctor
    /\ ~CandidateExists(returned[1].disk, unit)
    /\ Len(IssuesOfCategory(returned[1].issues, "test_gaps")) = 1
    /\ CandidateExists(returned[2].disk, unit)
    /\ ~CandidateIn(returned[2].disk, unit.path.dir)
    /\ IssuesOfCategory(returned[2].issues, "test_gaps") = <<>>
    /\ Cardinality({k \in 1..4 : CandidateIn(fs, FourLocations(unit)[k])}) >= 2

----------------------------------------------------------------------------
(* scan_project_parallel *)

\* a user config whose ignore_functions is a number
BadIgnoreConfig == [DEFAULT_CONFIG EXCEPT !.ignore_functions_is_list = FALSE]

\* The python files of a project: a module with stubs, a test module with a
\* marker and no definitions, an empty package file, a file that does not
\* parse, and one that cannot be read.
ProjectFiles ==
    { MkUnit("root/pkg", "foo.py", TRUE, "ok", 0, <<>>, TwoStubs, 0),
      MkUnit("root/tests", "test_foo.py", TRUE, "ok", 0, << <<"FIXME">> >>, <<>>, 1),
      MkUnit("root/pkg", "__init__.py", TRUE, "ok", 0, <<>>, <<>>, 0),
      MkUnit("root", "setup.py", TRUE, "SyntaxError", 2, <<>>, TwoStubs, 1),
      MkUnit("root", "conftest.py", FALSE, "ok", 0, <<>>, TwoStubs, 0) }

PathOf(u) == <<u.path.dir, u.path.name>>

\* what os.walk found is what is on disk
OnDisk(fl) == {PathOf(fl[i]) : i \in 1..Len(fl)}

NoResult == [file_path |-> [dir |-> "", name |-> ""], issues |-> <<>>,
             metrics |-> ZeroMetrics]

\* analyze_file without its filter: the result is returned whatever it holds
analyze_file_Unfiltered(u, cfg, disk) ==
    LET r == run_diagnostics(NewDoctor(1, u), cfg, u, disk)
    IN IF r.raised THEN [kind |-> "raised", result |-> NoResult]
       ELSE [kind |-> "result", result |-> r.result]

\* what a future holds once analyze_file is over: a DiagnosticResult, None,
\* or the exception it raised
analyze_file(u, cfg, disk) ==
    LET r == run_diagnostics(NewDoctor(1, u), cfg, u, disk)
    IN IF r.raised THEN [kind |-> "raised", result |-> NoResult]
       ELSE IF r.result.issues # <<>> \/ r.result.metrics.total_lines > 0
            THEN [kind |-> "result", result |-> r.result]
            ELSE [kind |-> "none", result |-> NoResult]

Pending == [kind |-> "pending", result |-> NoResult]

\* a collecting loop in which an exception of one future discards what was
\* collected so far
CollectOutcome_Aborting(results, o) ==
    CASE o.kind = "result" -> Append(results, o.result)
      [] o.kind = "raised" -> <<>>
      [] OTHER -> results

\* the body of the collecting loop for one completed future
CollectOutcome(results, o) ==
    IF o.kind = "result" THEN Append(results, o.result) ELSE results

\* a completion that makes as_completed forget the futures done before it
MarkCompleted_Forgetful(completed, i) == {i}

\* the futures that are done and not yet handed out by as_completed
MarkCompleted(completed, i) == completed \cup {i}

InitPool ==
    /\ files \in {s \in SeqsUpTo(ProjectFiles, MaxFiles) :
                    \A i, j \in 1..Len(s) : i # j => s[i] # s[j]}
    /\ config \in {DEFAULT_CONFIG, BadIgnoreConfig}
    /\ unit = MkUnit("", "", FALSE, "ok", 0, <<>>, <<>>, 0)
    /\ fs = {}
    /\ doctor = NoDoctor
    /\ returned = <<>>
    /\ out = NoOut
    /\ pool = NoPool
    /\ scans = <<>>
    /\ calls = {}
    /\ defaults = DEFAULT_CONFIG
    /\ cfgfile = NoFile

\* scan_project_parallel is called: first with one worker, then with several.
\* All files are submitted before the first future is collected.
StartScan ==
    /\ pool.phase = "idle"
    /\ Len(scans) < 2
    /\ \E w \in 1..MaxWorkers :
          /\ (Len(scans) = 0) = (w = 1)
          /\ pool' = [phase |-> "running", max_workers |-> w,
                      queue |-> [i \in 1..Len(files) |-> i],
                      running |-> {}, completed |-> {},
                      outcome |-> [i \in 1..Len(files) |-> Pending],
                      results |-> <<>>]
    /\ UNCHANGED <<unit, config, fs, doctor, returned, out, files, scans,
                   calls, defaults, cfgfile>>

\* an idle worker thread takes the next submitted task
WorkerStart ==
    /\ pool.phase = "running"
    /\ pool.queue # <<>>
    /\ Cardinality(pool.running) < pool.max_workers
    /\ pool' = [pool EXCEPT !.queue = Tail(@),
                            !.running = @ \cup {Head(pool.queue)}]
    /\ UNCHANGED <<unit, config, fs, doctor, returned, out, files, scans,
                   calls, defaults, cfgfile>>

\* a worker thread comes to the end of analyze_file
WorkerFinish ==
    /\ pool.phase = "running"
    /\ \E i \in pool.running :
          pool' = [pool EXCEPT
                      !.running = @ \ {i},
                      !.outcome[i] = analyze_file(files[i], config, OnDisk(files)),
                      !.completed = MarkCompleted(@, i)]
    /\ UNCHANGED <<unit, config, fs, doctor, returned, out, files, scans,
                   calls, defaults, cfgfile>>

\* the main thread takes one completed future from as_completed
Collect ==
    /\ pool.phase = "running"
    /\ \E i \in pool.completed :
          pool' = [pool EXCEPT
                      !.completed = @ \ {i},
                      !.results = CollectOutcome(@, pool.outcome[i])]
    /\ UNCHANGED <<unit, config, fs, doctor, returned, out, files, scans,
                   calls, defaults, cfgfile>>

\* every future was collected: the executor shuts down, the list is returned
ReturnResults ==
    /\ pool.phase = "running"
    /\ pool.queue = <<>> /\ pool.running = {} /\ pool.completed = {}
    /\ scans' = Append(scans, [max_workers |-> pool.max_workers,
                               results |-> pool.results])
    /\ pool' = NoPool
    /\ UNCHANGED <<unit, config, fs, doctor, returned, out, files, calls,
                   defaults, cfgfile>>

NextPool == StartScan \/ WorkerStart \/ WorkerFinish \/ Collect \/ ReturnResults

SpecPool == InitPool /\ [][NextPool]_vars

----------------------------------------------------------------------------
(* Properties of scan_project_parallel *)

\* how often result r stands in a result list
Occurrences(results, r) == Cardinality({k \in 1..Len(results) : results[k] = r})

\* how often the pair (unit, issue) stands in a result list
PairCount(results, path, issue) ==
    SumSeq([k \in 1..Len(results) |->
        IF results[k].file_path = path
        THEN Len(SelectSeq(results[k].issues, LAMBDA x : x = issue))
        ELSE 0])

AllIssues(results) ==
    UNION {Range(results[k].issues) : k \in 1..Len(results)}

AllPaths(results) == {results[k].file_path : k \in 1..Len(results)}

\* C3: the scan with one worker and the scan with several workers return the
\* same multiset of (unit, issue) pairs, and the same units.
C3_WorkerCountInvariance ==
    Len(scans) = 2 =>
        LET a == scans[1].results
            b == scans[2].results
        IN /\ AllPaths(a) = AllPaths(b)
           /\ Len(a) = Len(b)
           /\ \A p \in AllPaths(a) \cup AllPaths(b) :
                 \A i \in AllIssues(a) \cup AllIssues(b) :
                    PairCount(a, p, i) = PairCount(b, p, i)

\* both scans returned at least two units with issues, in a different order
C3_Witness ==
    /\ Len(scans) = 2
    /\ scans[1].max_workers = 1 /\ scans[2].max_workers > 1
    /\ Len(scans[1].results) >= 2
    /\ scans[1].results # scans[2].results
    /\ \A k \in 1..Len(scans[1].results) : scans[1].results[k].issues # <<>>

\* the unit scanned alone, with the same files on disk
Alone(u) == analyze_file(u, config, OnDisk(files))

Fails(u) ==
    \/ ~u.readable
    \/ u.parse # "ok"
    \/ Alone(u).kind = "raised"

\* C4: whatever units of the scan fail, no unit is lost while the pool runs,
\* and once the scan has returned, for every unit that yields a result when
\* scanned alone the returned list holds that very result once; nothing else
\* is in the list.
C4_FailureIsolation ==
    LET alone == [i \in 1..Len(files) |-> Alone(files[i])]
    IN /\ pool.phase = "idle" =>
             \A s \in 1..Len(scans) :
                /\ \A i \in 1..Len(files) :
                      alone[i].kind = "result" =>
                          Occurrences(scans[s].results, alone[i].result) = 1
                /\ \A k \in 1..Len(scans[s].results) :
                      \E i \in 1..Len(files) :
                          /\ alone[i].kind = "result"
                          /\ scans[s].results[k] = alone[i].result
       /\ pool.phase = "running" =>
             \A i \in 1..Len(files) :
                 \/ i \in Range(pool.queue) \/ i \in pool.running
                 \/ pool.outcome[i].kind # "pending"

\* a scan with several workers returned where one unit raised, one did not
\* parse, and a third yielded its issues
C4_Witness ==
    /\ Len(scans) = 2
    /\ \E i, j, k \in 1..Len(files) :
          /\ Alone(files[i]).kind = "raised"
          /\ files[j].parse = "SyntaxError" /\ Alone(files[j]).kind = "result"
          /\ files[k].parse = "ok" /\ Alone(files[k]).kind = "result"
          /\ Alone(files[k]).result.issues # <<>>
          /\ Occurrences(scans[2].results, Alone(files[k]).result) = 1

ResultsFor(results, u) ==
    Cardinality({k \in 1..Len(results) : results[k].file_path = u.path})

----------------------------------------------------------------------------
(* Units for the detectors called one by one *)

ReturnSrc == {"", "None", "0", "False", "True", "-1", "1", "0.0", "''",
              "'doc'", "b''", "...", "[]", "{}", "()", "[1]", "{1}", "set()",
              "x", "f()"}

OneStmt ==
    {Pass, Src("assign", "x"),
     Src("expr", "..."), Src("expr", "1"), Src("expr", "f()"), Src("expr", "'doc'"),
     Src("raise", ""), Src("raise", "NotImplementedError"),
     Src("raise", "NotImplementedError()"),
     Src("raise", "errors.NotImplementedError()"), Src("raise", "ValueError()")}
    \cup {Ret(e) : e \in ReturnSrc}

FewStmts == {Pass, Ret("0"), Src("raise", "NotImplementedError()")}

\* what follows the docstring: nothing, any one statement, or several of a few
Rests == {<<>>} \cup {<<s>> : s \in OneStmt}
         \cup {r \in SeqsUpTo(FewStmts, MaxBody) : Len(r) >= 2}

Bodies == {r \in Rests : r # <<>>} \cup {<<Doc("'doc'")>> \o r : r \in Rests}

FuncNames == {"foo", "__init__", "_helper"}

\* a function at module level, a method of a plain class, an abstract method
\* of a class deriving from ABC, and one of a class with metaclass=ABCMeta
FunctionUnits ==
    {MkUnit("root/pkg", "foo.py", TRUE, "ok", 0, <<>>,
            <<Def(n, 0, <<>>, b, NoParams)>>, 0) : n \in FuncNames, b \in Bodies}
    \cup
    {MkUnit("root/pkg", "foo.py", TRUE, "ok", 0, <<>>,
            << Class("Base", 0, c[1], c[2], <<Doc("'doc'")>>),
               Def(n, 1, c[3], b, Hinted) >>, 0) :
        n \in FuncNames, b \in Bodies,
        c \in { << <<>>, "", <<>> >>,
                << <<"ABC">>, "", <<"abstractmethod">> >>,
                << <<"Base">>, "ABCMeta", <<"wraps()", "abc.abstractmethod">> >> }}
    \cup
    \* a function whose only statement is a nested stub
    {MkUnit("root/pkg", "foo.py", TRUE, "ok", 0, <<>>,
            << Def("foo", 0, <<>>, d, NoParams),
               Def("bar", 1, <<>>, <<Pass>>, NoParams) >>, 0) :
        d \in {<<>>, <<Doc("'doc'")>>, <<Pass>>}}

\* the first comment is any comment of up to MaxWords words; the further
\* ones hold no marker
FurtherComments == {<<"later">>}

CommentUnits ==
    {MkUnit("root/pkg", "foo.py", TRUE, "ok", 0, <<c>> \o more, <<>>, 1) :
        c \in SeqsUpTo(Words, MaxWords),
        more \in SeqsUpTo(FurtherComments, MaxComments - 1)}

DetectUnits == FunctionUnits \cup CommentUnits

InitDetect ==
    /\ unit \in DetectUnits
    /\ config = DEFAULT_CONFIG
    /\ fs = {}
    /\ doctor = NoDoctor
    /\ returned = <<>>
    /\ out = NoOut
    /\ files = <<>>
    /\ pool = NoPool
    /\ scans = <<>>
    /\ calls = {}
    /\ defaults = DEFAULT_CONFIG
    /\ cfgfile = NoFile

\* self.tree as a detector finds it: "if not self.tree: return issues"
TreeOf(d) == IF d.tree.present THEN d.tree.nodes ELSE <<>>

\* doctor.find_todos(), called directly
CallFindTodos ==
    /\ doctor.id > 0
    /\ out' = [detector |-> "find_todos", ready |-> doctor.source_loaded,
               issues |-> IF doctor.source_loaded
                          THEN find_todos(config, unit.comments) ELSE <<>>]
    /\ UNCHANGED <<unit, config, fs, doctor, returned, files, pool, scans,
                   calls, defaults, cfgfile>>

\* doctor.find_stubs(), called directly
CallFindStubs ==
    /\ doctor.id > 0
    /\ out' = [detector |-> "find_stubs", ready |-> doctor.tree.present,
               issues |-> find_stubs(config, TreeOf(doctor))]
    /\ UNCHANGED <<unit, config, fs, doctor, returned, files, pool, scans,
                   calls, defaults, cfgfile>>

\* doctor.find_simple_returns(), called directly
CallFindSimpleReturns ==
    /\ doctor.id > 0
    /\ out' = [detector |-> "find_simple_returns", ready |-> doctor.tree.present,
               issues |-> find_simple_returns(config, TreeOf(doctor))]
    /\ UNCHANGED <<unit, config, fs, doctor, returned, files, pool, scans,
                   calls, defaults, cfgfile>>

\* doctor.find_unimplemented_abstracts(), called directly
CallFindUnimplementedAbstracts ==
    /\ doctor.id > 0
    /\ out' = [detector |-> "find_unimplemented_abstracts", ready |-> doctor.tree.present,
               issues |-> find_unimplemented_abstracts(config, TreeOf(doctor))]
    /\ UNCHANGED <<unit, config, fs, doctor, returned, files, pool, scans,
                   calls, defaults, cfgfile>>

NextDetect ==
    \/ Construct
    \/ RunDiagnostics
    \/ CallFindTodos
    \/ CallFindStubs
    \/ CallFindSimpleReturns
    \/ CallFindUnimplementedAbstracts

SpecDetect == InitDetect /\ [][NextDetect]_vars

----------------------------------------------------------------------------
(* Properties of the detectors, stated on the source text of the unit *)

\* the detector named was called on a doctor that had parsed the unit
Called(detector) == out.detector = detector /\ out.ready

FunctionsOf(u) == {i \in 1..Len(u.defs) : u.defs[i].kind = "def"}

\* the statements of function i that follow its docstring; a definition
\* nested in the function counts as a statement
RestOf(u, i) ==
    LET b == u.defs[i].body
        nested == [k \in 1..Len(Children(u.defs, i)) |-> Src("def", "")]
        all == b \o nested
    IN IF all # <<>> /\ all[1].s = "expr" /\ all[1].e \in StrSrc
       THEN Tail(all) ELSE all

\* line of the def keyword of function i
DeclLine(u, i) == Lineno(u.defs, i, Len(u.comments) + 1)

\* line of the k-th statement after the docstring of function i, each of the
\* statements before it taking one line
RestLine(u, i, k) ==
    DeclLine(u, i) + (Len(u.defs[i].body) - Len(RestOf(u, i))) + k

IssuesNamed(issues, name) == SelectSeq(issues, LAMBDA x : x.name = name)

ExpectedStubType(rest) ==
    IF Len(rest) # 1 THEN ""
    ELSE CASE rest[1] = Src("pass", "")          -> "pass statement"
           [] rest[1] = Src("expr", "...")       -> "ellipsis (...)"
           [] rest[1] = Src("raise", "NotImplementedError")   -> "NotImplementedError"
           [] rest[1] = Src("raise", "NotImplementedError()") -> "NotImplementedError"
           [] OTHER -> ""

StubLawFor(u, i) ==
    LET found == IssuesNamed(out.issues, u.defs[i].name)
        want == ExpectedStubType(RestOf(u, i))
    IN IF want = "" THEN found = <<>>
       ELSE /\ Len(found) = 1
            /\ found[1].category = "stubs"
            /\ found[1].line_number = DeclLine(u, i)
            /\ found[1].label = want

\* C6 as stated: every function whose body after the docstring is exactly
\* one pass, ellipsis or raise NotImplementedError gets exactly one stubs
\* issue at its declaration line with the matching stub_type, and every other
\* function gets none.
C6_StubLawAllFunctions ==
    Called("find_stubs") => \A i \in FunctionsOf(unit) : StubLawFor(unit, i)

\* C6 amended: the same, for every function whose name is not in
\* ignore_functions; a function whose name is in ignore_functions gets no
\* stubs issue.
C6_StubLaw ==
    Called("find_stubs") =>
        \A i \in FunctionsOf(unit) :
            IF unit.defs[i].name \in {"__init__", "__str__", "__repr__"}
            THEN IssuesNamed(out.issues, unit.defs[i].name) = <<>>
            ELSE StubLawFor(unit, i)

\* find_stubs was called on a documented method that raises
\* NotImplementedError() and reported it
C6_Witness ==
    /\ Called("find_stubs")
    /\ Len(unit.defs) = 2 /\ unit.defs[1].kind = "class"
    /\ unit.defs[2].name = "foo"
    /\ unit.defs[2].body = <<Doc("'doc'"), Src("raise", "NotImplementedError()")>>
    /\ Len(out.issues) = 1
    /\ out.issues[1].label = "NotImplementedError"

ExpectedReturnType(e) ==
    CASE e = ""      -> "None (implicit)"
      [] e = "None"  -> "None"
      [] e = "0"     -> "Zero"
      [] e = "''"    -> "Empty String"
      [] e = "False" -> "False"
      [] e = "True"  -> "True"
      [] e = "-1"    -> "Negative One"
      [] e = "[]"    -> "Empty List"
      [] e = "{}"    -> "Empty Dict"
      [] e = "()"    -> "Empty Tuple"
      [] OTHER       -> ""

\* C7: a function (not in ignore_functions) whose body after the docstring
\* is exactly one return statement gets exactly one simple_returns issue at
\* the line of the return, labelled with the kind of the placeholder it
\* returns, when it returns nothing, None, 0, "", False, True, -1 or an empty
\* collection literal, and no issue when it returns anything else.
C7_PlaceholderReturnLaw ==
    Called("find_simple_returns") =>
        \A i \in FunctionsOf(unit) :
            LET rest == RestOf(unit, i)
                found == IssuesNamed(out.issues, unit.defs[i].name)
            IN (/\ unit.defs[i].name \notin {"__init__", "__str__", "__repr__"}
                /\ Len(rest) = 1 /\ rest[1].s = "return")
               => IF ExpectedReturnType(rest[1].e) = "" THEN found = <<>>
                  ELSE /\ Len(found) = 1
                       /\ found[1].category = "simple_returns"
                       /\ found[1].line_number = RestLine(unit, i, 1)
                       /\ found[1].label = ExpectedReturnType(rest[1].e)

\* the class statement that holds function i names ABC or ABCMeta as a base
\* or ABCMeta as its metaclass
InAbstractClass(u, i) ==
    /\ u.defs[i].parent # 0
    /\ u.defs[u.defs[i].parent].kind = "class"
    /\ \/ Range(u.defs[u.defs[i].parent].bases)
            \cap {"ABC", "ABCMeta", "abc.ABC", "abc.ABCMeta"} # {}
       \/ u.defs[u.defs[i].parent].metaclass = "ABCMeta"

MarkedAbstract(u, i) ==
    Range(u.defs[i].decorators) \cap {"abstractmethod", "abc.abstractmethod"} # {}

\* C8: an abstract-marked method of a class recognised as abstract whose
\* only statement after the docstring is return 0 gets no
\* unimplemented_abstracts issue.
C8_AbstractReturnZeroNotFlagged ==
    Called("find_unimplemented_abstracts") =>
        \A i \in FunctionsOf(unit) :
            (/\ InAbstractClass(unit, i) /\ MarkedAbstract(unit, i)
             /\ RestOf(unit, i) = <<Ret("0")>>)
            => IssuesNamed(out.issues, unit.defs[i].name) = <<>>

\* the detector was called on such a method, in a class that derives from ABC
C8_Witness ==
    /\ Called("find_unimplemented_abstracts")
    /\ Len(unit.defs) = 2
    /\ unit.defs[1].bases = <<"ABC">>
    /\ unit.defs[2].decorators = <<"abstractmethod">>
    /\ unit.defs[2].body = <<Doc("'doc'"), Ret("0")>>
    /\ out.issues = <<>>

\* the markers, in the order of the pattern list
MarkerOrder == <<"TODO", "FIXME", "HACK", "XXX", "NOTE", "TEMP", "WIP">>

MarkersIn(comment) ==
    {k \in 1..Len(MarkerOrder) :
        \E w \in Range(comment) :
            w = MarkerOrder[k] \/ (w = "todo" /\ MarkerOrder[k] = "TODO")}

IssuesAtLine(issues, line) == SelectSeq(issues, LAMBDA x : x.line_number = line)

\* C10: a comment without any of the seven markers gets no todos issue; a
\* comment with one or more gets exactly one, labelled by the marker that
\* comes first in the pattern list among those the comment holds; with both
\* TODO and FIXME in it, in either order, the label is Action Required.
C10_FirstMarkerWins ==
    Called("find_todos") =>
        \A c \in 1..Len(unit.comments) :
            LET found == IssuesAtLine(out.issues, c)
                ms == MarkersIn(unit.comments[c])
            IN /\ Len(found) <= 1
               /\ (ms = {}) = (found = <<>>)
               /\ ms # {} =>
                     /\ found[1].category = "todos"
                     /\ \A k \in ms :
                           (\A h \in ms : k <= h) =>
                               found[1].label = TODO_PATTERNS[k].label
               /\ {"TODO", "FIXME"} \subseteq Range(unit.comments[c])
                     => found[1].label = "Action Required"

\* find_todos was called on a unit whose first comment reads FIXME ... TODO
\* and whose second holds no marker
C10_Witness ==
    /\ Called("find_todos")
    /\ Len(unit.comments) = 2
    /\ unit.comments[1] = <<"FIXME", "TODO">>
    /\ unit.comments[2] = <<"later">>
    /\ Len(out.issues) = 1
    /\ out.issues[1].label = "Action Required"

----------------------------------------------------------------------------
(* Scans under a configuration that a user config file overrides *)

\* severity overrides loaded into one ConfigManager
MaxOverrides == 1

Severities == {"critical", "serious", "minor"}

\* _merge_config for {"severity_levels": {category: severity}}: the nested
\* dict is updated in place
MergeSeverity(cfg, category, severity) ==
    [cfg EXCEPT !.severity_levels[category] = severity]

Overridden(cfg) ==
    {c \in Categories : cfg.severity_levels[c] # DEFAULT_CONFIG.severity_levels[c]}

SeverityUnits == BrokenUnits \cup {u \in ValidUnits : u.comments # <<>>}

InitSeverity ==
    /\ unit \in SeverityUnits
    /\ config = DEFAULT_CONFIG
    /\ fs = {}
    /\ doctor = NoDoctor
    /\ returned = <<>>
    /\ out = NoOut
    /\ files = <<>>
    /\ pool = NoPool
    /\ scans = <<>>
    /\ calls = {}
    /\ defaults = DEFAULT_CONFIG
    /\ cfgfile = NoFile

\* one key of the user's JSON object: the shape of its value, and the value
\* where the model needs it
Entry(key, shape, category, severity, n) ==
    [key |-> key, shape |-> shape, category |-> category,
     severity |-> severity, n |-> n]

\* a user file holding {"severity_levels": {category: severity}}
SeverityFile(category, severity) ==
    [kind |-> "json",
     doc |-> <<Entry("severity_levels", "dict", category, severity, 0)>>]

\* ConfigManager(config_path): the constructor loads the user's file, which
\* overrides severities, before any doctor is given the configuration; the
\* nested dict it updates is the one DEFAULT_CONFIG holds (a shallow copy)
LoadConfig ==
    /\ doctor.id = 0
    /\ \E c \in Categories, v \in Severities :
          /\ Cardinality(Overridden(MergeSeverity(config, c, v))) <= MaxOverrides
          /\ config' = MergeSeverity(config, c, v)
          /\ config' # config
          /\ defaults' = MergeSeverity(defaults, c, v)
          /\ cfgfile' = SeverityFile(c, v)
    /\ UNCHANGED <<unit, fs, doctor, returned, out, files, pool, scans, calls>>

NextSeverity == Construct \/ RunDiagnostics \/ LoadConfig

SpecSeverity == InitSeverity /\ [][NextSeverity]_vars

\* C11: every issue of every result has the severity that the configuration
\* in force at the scan gives to the issue's category.
C11_SeverityFollowsConfig ==
    \A k \in 1..Len(returned) :
        \A i \in 1..Len(returned[k].issues) :
            returned[k].issues[i].severity
              = returned[k].severity_levels[returned[k].issues[i].category]

----------------------------------------------------------------------------
(* Whole scans of units with nested and grouped definitions *)

ShortBodies == {<<Pass>>, <<Ret("0")>>, <<Doc("'doc'"), Pass>>,
                <<Doc("'fifteen chars!!'"), Ret("x")>>}

\* a function with a nested function, followed by another function; the
\* same inside a class; a class followed by a function
OrderUnits ==
    {MkUnit("root/pkg", "foo.py", TRUE, "ok", 0, c,
            << Def("foo", 0, <<>>, <<Src("assign", "x")>>, NoParams),
               Def("bar", 1, <<>>, b1, NoParams),
               Def("baz", 0, <<>>, b2, Partly) >>, 0) :
        c \in CommentsPalette, b1 \in ShortBodies, b2 \in ShortBodies}
    \cup
    {MkUnit("root/pkg", "foo.py", TRUE, "ok", 0, <<>>,
            << Class("Base", 0, <<"ABC">>, "", <<Doc("'doc'")>>),
               Def("foo", 1, <<"abstractmethod">>, b1, NoParams),
               Def("bar", 2, <<>>, <<Pass>>, NoParams),
               Def("baz", 1, <<"abstractmethod">>, b2, Partly) >>, 0) :
        b1 \in ShortBodies, b2 \in ShortBodies}
    \cup
    {MkUnit("root/pkg", "foo.py", TRUE, "ok", 0, <<>>,
            << Class("Base", 0, <<>>, "", <<Pass>>),
               Def("foo", 1, <<>>, b1, Partly),
               Def("baz", 0, <<>>, b2, NoParams) >>, 0) :
        b1 \in ShortBodies, b2 \in ShortBodies}

\* parameter lists: a receiver or none, a positional parameter or none,
\* *args, **kwargs, a keyword-only parameter, a return annotation; each
\* with or without an annotation
HintParams ==
    {[args |-> r \o x, vararg |-> v, kwarg |-> w, kwonly |-> k, returns |-> t] :
        r \in {<<>>, <<Arg("self", FALSE)>>, <<Arg("self", TRUE)>>},
        x \in {<<>>, <<Arg("x", FALSE)>>, <<Arg("x", TRUE)>>},
        v \in {"none", "plain", "annotated"},
        w \in {"none", "plain"},
        k \in {<<>>, <<Arg("k", FALSE)>>, <<Arg("k", TRUE)>>},
        t \in BOOLEAN}

\* parameter lists with more unannotated parameters than the details show
ManyParams ==
    {[args |-> <<Arg("x", FALSE), Arg("y", FALSE), Arg("z", FALSE), Arg("w", a)>>,
      vararg |-> "plain", kwarg |-> "plain", kwonly |-> <<Arg("k", FALSE)>>,
      returns |-> t] : a \in BOOLEAN, t \in BOOLEAN}

HintUnits ==
    {MkUnit("root/pkg", "foo.py", TRUE, "ok", 0, <<>>,
            <<Def("foo", 0, <<>>, <<Src("assign", "x")>>, p)>>, 0) :
        p \in HintParams \cup ManyParams}

\* a function or a method with a public, a private, an ignored or another
\* dunder name, with no docstring or one around the minimum length, beside
\* a documented function
DocUnits ==
    {MkUnit("root/pkg", "foo.py", TRUE, "ok", 0, <<>>,
            c \o << Def(n, Len(c), <<>>, d \o <<Src("assign", "x")>>, NoParams),
                    Def("bar", 0, <<>>, <<Doc("'fifteen chars!!'"), Pass>>,
                        NoParams) >>, 0) :
        c \in {<<>>, <<Class("Base", 0, <<>>, "", <<Doc("'doc'")>>)>>},
        n \in {"foo", "_helper", "__init__", "__call__"},
        d \in {<<>>} \cup {<<Doc(e)>> : e \in StrSrc}}

\* a function with up to MaxRest plain statements after an optional
\* docstring, under various decorators and names
MaxRest == 4

Assigns(n) == [k \in 1..n |-> Src("assign", "x")]

\* no docstring, one of one line, one of three lines, one of one line that
\* holds two escaped line breaks; then 0..MaxRest statements
SizedBodies ==
    {d \o Assigns(k) :
        d \in {<<>>, <<Doc("'doc'")>>, <<Doc("'a\nlong\ndocstring'")>>}
              \cup {<<Doc(e)>> : e \in EscapedSrc},
        k \in 0..MaxRest} \ {<<>>}

ShortUnits ==
    {MkUnit("root/pkg", "foo.py", TRUE, "ok", 0, <<>>,
            <<Def(n, 0, dec, b, NoParams)>>, 0) :
        n \in {"foo", "_helper", "__init__", "__call__"},
        dec \in {<<>>, <<"property">>, <<"x.setter">>, <<"wraps()">>,
                 <<"functools.wraps", "classmethod">>},
        b \in SizedBodies}

\* one function, free or the method of a plain class, with each of the
\* bodies: a docstring or none, then one statement of any kind or a few
MethodUnits ==
    {MkUnit("root/pkg", "foo.py", TRUE, "ok", 0, <<>>,
            c \o <<Def(n, Len(c), <<>>, b, NoParams)>>, 0) :
        c \in {<<>>, <<Class("Base", 0, <<>>, "", <<Doc("'doc'")>>)>>},
        n \in {"foo", "__init__"},
        b \in Bodies}

ScanUnits ==
    OrderUnits \cup HintUnits \cup DocUnits \cup ShortUnits \cup MethodUnits

InitScan ==
    /\ unit \in ScanUnits
    /\ config = DEFAULT_CONFIG
    /\ fs = {}
    /\ doctor = NoDoctor
    /\ returned = <<>>
    /\ out = NoOut
    /\ files = <<>>
    /\ pool = NoPool
    /\ scans = <<>>
    /\ calls = {}
    /\ defaults = DEFAULT_CONFIG
    /\ cfgfile = NoFile

NextScan == Construct \/ RunDiagnostics

SpecScan == InitScan /\ [][NextScan]_vars

\* the detectors in the order run_diagnostics calls them
DetectorOrder ==
    <<"todos", "stubs", "simple_returns", "incomplete_methods",
      "missing_docstrings", "suspicious_short_functions",
      "unimplemented_abstracts", "type_hint_gaps", "test_gaps">>

DetectorIndex(category) ==
    CHOOSE k \in 1..Len(DetectorOrder) : DetectorOrder[k] = category

\* the issues follow the detector invocation order
InDetectorOrder(issues) ==
    \A i, j \in 1..Len(issues) :
        i < j => DetectorIndex(issues[i].category) <= DetectorIndex(issues[j].category)

\* within one detector the issues follow the declaration order of the
\* definitions they are about (a definition nested in f is declared before
\* whatever follows f, so pre-order is the order of the lines)
InDeclarationOrder(issues) ==
    \A i, j \in 1..Len(issues) :
        (i < j /\ issues[i].category = issues[j].category)
            => issues[i].line_number <= issues[j].line_number

\* C12: in every result the issues stand in detector invocation order, and
\* within each detector in pre-order (declaration order) of the tree.
C12_IssueOrder ==
    \A k \in 1..Len(returned) :
        /\ InDetectorOrder(returned[k].issues)
        /\ InDeclarationOrder(returned[k].issues)

----------------------------------------------------------------------------
(* The detectors of one scan, called in any order *)

Detectors == Range(DetectorOrder)

\* what one detector returns
DetectorIssues(name, cfg, u, tree, files_on_disk) ==
    CASE name = "todos" -> find_todos(cfg, u.comments)
      [] name = "stubs" -> find_stubs(cfg, tree)
      [] name = "simple_returns" -> find_simple_returns(cfg, tree)
      [] name = "incomplete_methods" -> find_incomplete_methods(cfg, tree)
      [] name = "missing_docstrings" -> find_missing_docstrings(cfg, tree)
      [] name = "suspicious_short_functions" ->
            find_suspicious_short_functions(cfg, tree)
      [] name = "unimplemented_abstracts" ->
            find_unimplemented_abstracts(cfg, tree)
      [] name = "type_hint_gaps" -> find_type_hint_gaps(cfg, tree)
      [] name = "test_gaps" -> find_test_gaps(cfg, tree, u.path, files_on_disk)

\* find_type_hint_gaps counting from a fresh total instead of adding
DetectorMetrics_Resetting(name, cfg, tree, m) ==
    CASE name = "missing_docstrings" -> MissingDocMetrics(cfg, tree, m)
      [] name = "type_hint_gaps" ->
            TypeHintMetrics(cfg, tree, [m EXCEPT !.total_functions = 0,
                                                 !.type_hinted_functions = 0])
      [] OTHER -> m

\* what one detector does to self.metrics
DetectorMetrics(name, cfg, tree, m) ==
    CASE name = "missing_docstrings" -> MissingDocMetrics(cfg, tree, m)
      [] name = "type_hint_gaps" -> TypeHintMetrics(cfg, tree, m)
      [] OTHER -> m

\* self.issues = self.find_x() in place of self.issues.extend(self.find_x())
ExtendIssues_Assigning(d, name, cfg, u, files_on_disk) ==
    [d EXCEPT !.issues = DetectorIssues(name, cfg, u, d.tree.nodes, files_on_disk),
              !.metrics = DetectorMetrics(name, cfg, d.tree.nodes, d.metrics)]

\* self.issues.extend(self.find_x())
ExtendIssues(d, name, cfg, u, files_on_disk) ==
    [d EXCEPT !.issues = d.issues \o DetectorIssues(name, cfg, u, d.tree.nodes,
                                                     files_on_disk),
              !.metrics = DetectorMetrics(name, cfg, d.tree.nodes, d.metrics)]

\* units with nested functions and with classes; the abstract class has comments
PermUnits ==
    {MkUnit("root/pkg", "foo.py", TRUE, "ok", 0,
            IF d[1].kind = "class" /\ d[1].bases # <<>>
            THEN << <<"later", "TODO">>, <<"FIXME">> >> ELSE <<>>,
            d, 0) : d \in DefsPalette \ {<<>>, TwoStubs}}

InitPerm ==
    /\ unit \in PermUnits
    /\ config = DEFAULT_CONFIG
    /\ fs = {}
    /\ doctor = NoDoctor
    /\ returned = <<>>
    /\ out = NoOut
    /\ files = <<>>
    /\ pool = NoPool
    /\ scans = <<>>
    /\ calls = {}
    /\ defaults = DEFAULT_CONFIG
    /\ cfgfile = NoFile

\* run_diagnostics up to the parse: the issue list is emptied, the syntax
\* is checked and the tree is built
BeginScan ==
    /\ doctor.id > 0
    /\ returned = <<>>
    /\ ~doctor.tree.present
    /\ ~SourceFalsy(doctor)
    /\ check_syntax(config, unit) = <<>>
    /\ doctor' = [doctor EXCEPT !.issues = <<>>,
                      !.tree = [present |-> TRUE, nodes |-> ParseUnit(unit)]]
    /\ calls' = {}
    /\ UNCHANGED <<unit, config, fs, returned, out, files, pool, scans,
                   defaults, cfgfile>>

\* one detector that has not run in this scan is called and its issues are
\* added to self.issues
CallDetector ==
    /\ doctor.tree.present
    /\ Len(returned) < MaxRuns
    /\ \E name \in Detectors \ calls :
          /\ doctor' = ExtendIssues(doctor, name, config, unit, fs)
          /\ calls' = calls \cup {name}
    /\ UNCHANGED <<unit, config, fs, returned, out, files, pool, scans,
                   defaults, cfgfile>>

\* the DiagnosticResult is built once every detector has run
FinishScan ==
    /\ doctor.tree.present
    /\ calls = Detectors
    /\ Len(returned) < MaxRuns
    /\ returned' = Append(returned,
          [doctor |-> doctor.id, raised |-> FALSE,
           issues |-> doctor.issues, metrics |-> doctor.metrics,
           disk |-> fs, severity_levels |-> config.severity_levels])
    /\ UNCHANGED <<unit, config, fs, doctor, out, files, pool, scans, calls,
                   defaults, cfgfile>>

NextPerm == Construct \/ BeginScan \/ CallDetector \/ FinishScan

SpecPerm == InitPerm /\ [][NextPerm]_vars

\* the scan of a fresh doctor in the order of run_diagnostics
InOrder == run_diagnostics(NewDoctor(1, unit), config, unit, fs).result

OfCategory(issues, category) ==
    SelectSeq(issues, LAMBDA i : i.category = category)

\* C13: whatever the order in which the nine detectors ran, the result holds
\* the same set of issues and the same metrics as run_diagnostics gives, and
\* while the scan runs each detector that was called has contributed exactly
\* the issues it contributes in the order of run_diagnostics.
C13_OrderIndependence ==
    /\ \A k \in 1..Len(returned) :
          /\ Range(returned[k].issues) = Range(InOrder.issues)
          /\ Len(returned[k].issues) = Len(InOrder.issues)
          /\ returned[k].metrics = InOrder.metrics
    /\ doctor.tree.present =>
          \A c \in Detectors :
              OfCategory(doctor.issues, c)
                = IF c \in calls THEN OfCategory(InOrder.issues, c) ELSE <<>>

\* a scan finished in which a detector that changes the metrics ran before
\* a detector that precedes it in run_diagnostics, and issues of a later
\* category stand before issues of an earlier one
C13_Witness ==
    /\ Len(returned) > 0
    /\ ~InDetectorOrder(returned[1].issues)
    /\ returned[1].metrics.total_functions > 0
    /\ returned[1].metrics.type_hinted_functions > 0
    /\ Cardinality(CategoriesOf(returned[1].issues)) >= 4

\* the names of the functions for which the issues of a category were raised
NamesOf(issues, category) ==
    {issues[k].name : k \in {j \in 1..Len(issues) : issues[j].category = category}}

\* C14: no scan raises, for one method, both an incomplete_methods issue and
\* a stubs or simple_returns issue.
C14_IncompleteExcludesStub ==
    \A k \in 1..Len(returned) :
        NamesOf(returned[k].issues, "incomplete_methods")
          \cap (NamesOf(returned[k].issues, "stubs")
                \cup NamesOf(returned[k].issues, "simple_returns")) = {}

\* a no-op, a bare expression, or a return of nothing or of the literal None
IsUnimplementedSrc(stmt) ==
    \/ stmt.s \in {"pass", "expr"}
    \/ stmt.s = "return" /\ stmt.e \in {"", "None"}

IsSoleNotImplementedRaise(rest) ==
    /\ Len(rest) = 1
    /\ rest[1].s = "raise"
    /\ rest[1].e \in {"NotImplementedError", "NotImplementedError()"}

\* C15: an abstract-marked method of an abstract class whose body after the
\* docstring is non-empty and is not a sole raise of NotImplementedError gets
\* an unimplemented_abstracts issue exactly when each of its statements is a
\* no-op, a bare expression, or a return of nothing or of the literal None.
C15_AbstractFlagLaw ==
    Called("find_unimplemented_abstracts") =>
        \A i \in FunctionsOf(unit) :
            (/\ InAbstractClass(unit, i) /\ MarkedAbstract(unit, i)
             /\ RestOf(unit, i) # <<>>
             /\ ~IsSoleNotImplementedRaise(RestOf(unit, i)))
            => (IssuesNamed(out.issues, unit.defs[i].name) # <<>>
                  <=> \A k \in 1..Len(RestOf(unit, i)) :
                          IsUnimplementedSrc(RestOf(unit, i)[k]))

\* the parameters of definition i that may carry an annotation
ParamsOf(u, i) ==
    LET p == u.defs[i].params
    IN Range(p.args) \cup Range(p.kwonly)
       \cup (IF p.vararg = "none" THEN {} ELSE {Arg("*args", p.vararg # "plain")})
       \cup (IF p.kwarg = "none" THEN {} ELSE {Arg("**kwargs", p.kwarg # "plain")})

\* a required annotation is missing: the return type, or a parameter that is
\* not the receiver
SomethingMissing(u, i) ==
    \/ ~u.defs[i].params.returns
    \/ \E a \in ParamsOf(u, i) : ~a.ann /\ a.arg \notin {"self", "cls"}

AnnotatedAnywhere(u, i) ==
    \/ u.defs[i].params.returns
    \/ \E a \in ParamsOf(u, i) : a.ann

\* C16: a function gets a type_hint_gaps issue exactly when a required
\* annotation is missing and the function has an annotation somewhere: on
\* its return, a positional, a variadic or a keyword-only parameter.
C16_TypeHintGapLaw ==
    \A k \in 1..Len(returned) :
        \A i \in FunctionsOf(unit) :
            (unit.defs[i].name \in NamesOf(returned[k].issues, "type_hint_gaps"))
              <=> (SomethingMissing(unit, i) /\ AnnotatedAnywhere(unit, i))

\* the entries of the missing list that the message of a type_hint_gaps
\* issue shows: the message names the function and nothing else
ShownInMessage(issue) == <<>>

\* how many required annotations function i lacks
MissingCount(u, i) ==
    Cardinality({a \in ParamsOf(u, i) : ~a.ann /\ a.arg \notin {"self", "cls"}})
    + (IF u.defs[i].params.returns THEN 0 ELSE 1)

TypeHintIssuesFor(issues, name) ==
    SelectSeq(issues, LAMBDA x : x.category = "type_hint_gaps" /\ x.name = name)

\* C17: the type_hint_gaps issue of a function that lacks more than five
\* annotations shows at most five of them in its message and keeps all of
\* them in its details.
C17_DetailsKeepFullList ==
    \A k \in 1..Len(returned) :
        \A i \in FunctionsOf(unit) :
            MissingCount(unit, i) > MaxShownHints =>
                LET found == TypeHintIssuesFor(returned[k].issues, unit.defs[i].name)
                IN \A j \in 1..Len(found) :
                      /\ Len(ShownInMessage(found[j])) <= MaxShownHints
                      /\ Len(found[j].list) = MissingCount(unit, i)

\* the functions declared at the top level of the unit whose name does not
\* start with an underscore
TopLevelPublic(u) ==
    {i \in FunctionsOf(u) :
        u.defs[i].parent = 0 /\ ~StartsWithUnderscore(u.defs[i].name)}

\* C18: with no candidate test file on disk, a unit that is not itself a
\* test gets one test_gaps issue exactly when it has at least two top-level
\* public functions, and the issue reports their number; methods and nested
\* functions do not count.
C18_TopLevelPublicCount ==
    \A k \in 1..Len(returned) :
        (~CandidateExists(returned[k].disk, unit)
         /\ ~LooksLikeTest(unit.path.name) /\ ~IsSetupFile(unit.path.name))
        => LET found == OfCategory(returned[k].issues, "test_gaps")
           IN IF Cardinality(TopLevelPublic(unit)) >= MinPublicFunctions
              THEN /\ Len(found) = 1
                   /\ found[1].count = Cardinality(TopLevelPublic(unit))
              ELSE found = <<>>

\* the doctor has scanned exactly once: its metrics are those of one scan
ScannedOnce ==
    Cardinality({k \in 1..Len(returned) : returned[k].doctor = doctor.id}) = 1

IgnoredFunc(u, i) == u.defs[i].name \in config.ignore_functions

\* the docstring of function i has at least min_docstring_length characters
\* once stripped
DocstringLongEnough(u, i) ==
    LET b == u.defs[i].body
    IN /\ b # <<>>
       /\ b[1].s = "expr"
       /\ b[1].e \in StrSrc
       /\ ParseExpr(b[1].e).striplen >= config.min_docstring_length

\* the functions that must have a docstring: not ignored, not private
NeedsDocstring(u) ==
    {i \in FunctionsOf(u) : ~IgnoredFunc(u, i) /\ ~IsPrivateName(u.defs[i].name)}

FunctionIssuesAt(issues, line) ==
    SelectSeq(issues, LAMBDA x : /\ x.category = "missing_docstrings"
                                 /\ x.label = "function"
                                 /\ x.line_number = line)

ComputedLines(u, i) ==
    LET base == Len(u.comments) + 1
        b == u.defs[i].body
        doclines == IF b # <<>> /\ b[1].s = "expr" /\ b[1].e \in StrSrc
                    THEN ParseExpr(b[1].e).nl + 1 ELSE 0
    IN (EndLineno(u.defs, i, base) - Lineno(u.defs, i, base) + 1) - doclines

\* a decorator written as an exempt bare name, or as a dotted name that ends
\* in one
ExemptSrc == ExemptDecorators \cup {"x.setter"}

ShortIssuesAt(issues, line) ==
    SelectSeq(issues, LAMBDA x : /\ x.category = "suspicious_short_functions"
                                 /\ x.line_number = line)

ExpectedShort(u, i) ==
    /\ ~IgnoredFunc(u, i)
    /\ ~IsDunderName(u.defs[i].name)
    /\ ComputedLines(u, i) < config.min_function_lines
    /\ Range(u.defs[i].decorators) \cap ExemptSrc = {}

\* C20: a function gets a suspicious_short_functions issue exactly when it
\* is not ignored, not a dunder method, its line span less the lines of its
\* docstring is below min_function_lines and no decorator of it is exempt;
\* the issue reports that number of lines, or 1 when the number is lower.
C20_ShortFunctionLaw ==
    \A k \in 1..Len(returned) :
        \A i \in FunctionsOf(unit) :
            LET found == ShortIssuesAt(returned[k].issues, DeclLine(unit, i))
            IN IF ExpectedShort(unit, i)
               THEN /\ Len(found) = 1
                    /\ found[1].count = Max(1, ComputedLines(unit, i))
                    /\ found[1].count >= 1
               ELSE found = <<>>

\* a function whose docstring holds more line breaks than the function has
\* lines was scanned and reported with one line
C20_Witness ==
    /\ Len(returned) > 0
    /\ Len(unit.defs) = 1
    /\ unit.defs[1].name = "foo"
    /\ unit.defs[1].decorators = <<"wraps()">>
    /\ unit.defs[1].body[1].e \in EscapedSrc
    /\ ComputedLines(unit, 1) < 1
    /\ Len(ShortIssuesAt(returned[1].issues, DeclLine(unit, 1))) = 1
    /\ ShortIssuesAt(returned[1].issues, DeclLine(unit, 1))[1].count = 1

\* function i is declared directly in the body of a class
IsMethod(u, i) ==
    u.defs[i].parent # 0 /\ u.defs[u.defs[i].parent].kind = "class"

HasDocSrc(u, i) ==
    LET b == u.defs[i].body
    IN b # <<>> /\ b[1].s = "expr" /\ b[1].e \in StrSrc

\* pass, a bare ellipsis, or a return of None (written or implied), of a
\* zero, of "", of False or of an empty collection literal
IsTrivialSrc(stmt) ==
    \/ stmt.s = "pass"
    \/ stmt.s = "expr" /\ stmt.e = "..."
    \/ stmt.s = "return"
         /\ stmt.e \in {"", "None", "0", "0.0", "''", "False", "[]", "{}", "()"}

IncompleteIssuesAt(issues, line) ==
    SelectSeq(issues, LAMBDA x : /\ x.category = "incomplete_methods"
                                 /\ x.line_number = line)

\* C21: a function gets an incomplete_methods issue exactly when it is a
\* method declared directly in a class body, is not ignored, has a docstring,
\* and the one statement that follows the docstring is pass, a bare ellipsis,
\* or a return of None, 0, "", False or an empty collection literal.
C21_IncompleteMethodLaw ==
    \A k \in 1..Len(returned) :
        \A i \in FunctionsOf(unit) :
            Len(IncompleteIssuesAt(returned[k].issues, DeclLine(unit, i)))
              = IF /\ IsMethod(unit, i) /\ ~IgnoredFunc(unit, i)
                   /\ HasDocSrc(unit, i)
                   /\ Len(RestOf(unit, i)) = 1
                   /\ IsTrivialSrc(RestOf(unit, i)[1])
                THEN 1 ELSE 0

\* C22: every issue of every result has a line number of at least 1.
C22_LineNumbersOneIndexed ==
    \A k \in 1..Len(returned) :
        \A i \in 1..Len(returned[k].issues) :
            returned[k].issues[i].line_number >= 1

----------------------------------------------------------------------------
(* ConfigManager: construction from user files of every kind *)

\* one turn of the loop of _merge_config on the manager's dict; st.defaults
\* is DEFAULT_CONFIG, whose nested severity_levels dict the manager shares
MergeEntry(st, e) ==
    IF e.shape = "dict"
    THEN IF e.key = "severity_levels"
         \* self.config[key].update(value)
         THEN [st EXCEPT !.config = MergeSeverity(@, e.category, e.severity),
                         !.defaults = MergeSeverity(@, e.category, e.severity)]
         \* an int or a list has no update(): AttributeError
         ELSE [st EXCEPT !.raised = TRUE]
    \* self.config[key] = value
    ELSE CASE e.key = "ignore_functions" ->
                [st EXCEPT !.config.ignore_functions_is_list = (e.shape = "list")]
           [] e.key = "min_function_lines" ->
                [st EXCEPT !.config.min_function_lines = e.n]
           [] e.key = "min_docstring_length" ->
                [st EXCEPT !.config.min_docstring_length = e.n]

\* _merge_config from entry k on: the loop ends at the first exception
RECURSIVE MergeFrom(_, _, _)
MergeFrom(st, doc, k) ==
    IF k > Len(doc) \/ st.raised THEN st
    ELSE MergeFrom(MergeEntry(st, doc[k]), doc, k + 1)

\* load_config: any exception is caught and logged
load_config(st, f) ==
    CASE f.kind \in {"unreadable", "notjson"} -> st
      \* user_config.items() on a list: AttributeError
      [] f.kind = "jsonlist" -> st
      [] f.kind = "json" -> [MergeFrom(st, f.doc, 1) EXCEPT !.raised = FALSE]

\* ConfigManager(config_path): DEFAULT_CONFIG.copy(), then load_config when
\* a path was given and exists
NewConfig(dflt, f) ==
    LET st == [config |-> dflt, defaults |-> dflt, raised |-> FALSE]
    IN IF f.kind \in {"none", "missing"} THEN st ELSE load_config(st, f)

FileCategories == {"todos", "stubs"}

ConfigFiles ==
    {[kind |-> k, doc |-> <<>>] :
        k \in {"none", "missing", "unreadable", "notjson", "jsonlist"}}
    \cup {SeverityFile(c, v) : c \in FileCategories, v \in Severities}
    \cup {[kind |-> "json", doc |-> d] : d \in
            { <<Entry("min_function_lines", "int", "", "", 3)>>,
              <<Entry("ignore_functions", "number", "", "", 5)>>,
              <<Entry("min_function_lines", "int", "", "", 3),
                Entry("min_docstring_length", "dict", "", "", 0)>> }}

ConfigUnits ==
    {MkUnit("root/pkg", "foo.py", TRUE, "ok", 0,
            << <<"later", "TODO">>, <<"FIXME">> >>, d, 0) :
        d \in {<<>>, TwoStubs}}
    \cup {u \in BrokenUnits : u.parse = "SyntaxError" /\ u.errline = 2}

InitConfig ==
    /\ unit \in ConfigUnits
    /\ config = DEFAULT_CONFIG
    /\ fs = {}
    /\ doctor = NoDoctor
    /\ returned = <<>>
    /\ out = NoOut
    /\ files = <<>>
    /\ pool = NoPool
    /\ scans = <<>>
    /\ calls = {}
    /\ defaults = DEFAULT_CONFIG
    /\ cfgfile = NoFile

\* config = ConfigManager(path); the doctors are made afterwards
NewConfigManager ==
    /\ doctor.id = 0
    /\ \E f \in ConfigFiles :
          LET r == NewConfig(defaults, f)
          IN /\ Cardinality(Overridden(r.defaults)) <= MaxOverrides
             /\ config' = r.config
             /\ defaults' = r.defaults
             /\ cfgfile' = f
    /\ UNCHANGED <<unit, fs, doctor, returned, out, files, pool, scans, calls>>

NextConfig == NewConfigManager \/ Construct \/ RunDiagnostics

SpecConfig == InitConfig /\ [][NextConfig]_vars

\* the scan of a fresh doctor under the configuration as written
DefaultScan == run_diagnostics(NewDoctor(1, unit), DEFAULT_CONFIG, unit, fs).result

\* C23: no error of a detector leaves run_diagnostics: every call returns a
\* result, and the result holds the issues of the detectors that did not
\* fail (those of find_todos and find_test_gaps, which never read
\* ignore_functions).
C23_DetectorErrorsContained ==
    \A k \in 1..Len(returned) :
        /\ ~returned[k].raised
        /\ \A c \in {"todos", "test_gaps"} :
              Len(OfCategory(returned[k].issues, c))
                = Len(OfCategory(DefaultScan.issues, c))

\* C25: DEFAULT_CONFIG stays as it is written whatever ConfigManagers are
\* created, and a ConfigManager created without a config file has the
\* written defaults: every category maps to its default severity.
C25_DefaultsFixed ==
    /\ defaults = DEFAULT_CONFIG
    /\ cfgfile.kind = "none" => config = DEFAULT_CONFIG

\* the file is not a JSON object, or gives a known key a value of another
\* shape than the default has
WrongShape(e) ==
    \/ e.key = "severity_levels" /\ e.shape # "dict"
    \/ e.key = "ignore_functions" /\ e.shape # "list"
    \/ e.key \in {"min_function_lines", "min_docstring_length"} /\ e.shape # "int"

Malformed(f) ==
    \/ f.kind \in {"unreadable", "notjson", "jsonlist"}
    \/ \E k \in 1..Len(f.doc) : WrongShape(f.doc[k])

\* C26: a ConfigManager made from a missing or malformed file has the
\* defaults for every option.
C26_MalformedFallsBack ==
    (cfgfile.kind = "missing" \/ Malformed(cfgfile)) => config = defaults

\* C24: a result that was returned stays as it was returned: no later step
\* changes its issues or its metrics.
C24_ReturnedResultsFrozen ==
    [][\A k \in 1..Len(returned) :
          /\ returned'[k].issues = returned[k].issues
          /\ returned'[k].metrics = returned[k].metrics]_vars

MetricNames ==
    {"total_lines", "total_functions", "total_classes",
     "documented_functions", "type_hinted_functions"}

\* the detector that may change each counter
OwnerOf(metric) ==
    CASE metric \in {"total_functions", "total_classes", "documented_functions"} ->
            "missing_docstrings"
      [] metric = "type_hinted_functions" -> "type_hint_gaps"
      [] OTHER -> ""

\* C27: while a doctor scans its unit no counter of its metrics goes down,
\* and the step of a detector changes only the counters that detector owns:
\* total_classes, total_functions and documented_functions belong to
\* find_missing_docstrings, type_hinted_functions to find_type_hint_gaps.
C27_MetricsMonotone ==
    [][(doctor.id > 0 /\ doctor'.id = doctor.id) =>
          \A m \in MetricNames :
              /\ doctor'.metrics[m] >= doctor.metrics[m]
              /\ doctor'.metrics[m] # doctor.metrics[m]
                    => calls' \ calls = {OwnerOf(m)}]_vars

\* all nine detectors ran on a unit with classes and hinted functions, the
\* owners of the counters among them
C27_Witness ==
    /\ calls = Detectors
    /\ doctor.metrics.total_classes > 0
    /\ doctor.metrics.total_functions > doctor.metrics.documented_functions
    /\ doctor.metrics.documented_functions > 0
    /\ doctor.metrics.type_hinted_functions > 0

\* the functions of the unit that are private and not ignored
PrivateFunctions(u) ==
    {i \in FunctionsOf(u) : IsPrivateName(u.defs[i].name) /\ ~IgnoredFunc(u, i)}

FunctionDocIssues(issues) ==
    SelectSeq(issues, LAMBDA x : x.category = "missing_docstrings"
                                 /\ x.label = "function")

MetricsBalanced(r, u) ==
    /\ r.metrics.documented_functions <= r.metrics.total_functions
    /\ r.metrics.type_hinted_functions <= r.metrics.total_functions
    /\ r.metrics.total_functions
         = r.metrics.documented_functions + Len(FunctionDocIssues(r.issues))
           + Cardinality(PrivateFunctions(u))

\* C28: in every result that run_diagnostics returned documented_functions
\* and type_hinted_functions are at most total_functions, and
\* total_functions is documented_functions plus the missing_docstrings
\* issues about functions plus the private functions that are not ignored.
C28_MetricsBalance ==
    \A k \in 1..Len(returned) :
        (~returned[k].raised /\ ~FailsToParse(unit) /\ unit.readable)
            => MetricsBalanced(returned[k], unit)

====
